---- MODULE Spec2Model ----
(***************************************************************************)
(* The EAP dispatcher of rlm_eap (src/modules/rlm_eap/rlm_eap.c): NAK      *)
(* negotiation, method selection, and the Authenticate / Post-Proxy /      *)
(* Post-Auth hooks with the session life cycle they drive.                 *)
(***************************************************************************)
EXTENDS Integers, Sequences, FiniteSets, TLC

(***************************************************************************)
(* EAP type numbers and packet codes (RFC 3748 numbering, as the           *)
(* PW_EAP_* names of the source).                                          *)
(***************************************************************************)
PW_EAP_INVALID == 0
PW_EAP_IDENTITY == 1
PW_EAP_NOTIFICATION == 2
PW_EAP_NAK == 3
PW_EAP_MD5 == 4
PW_EAP_TLS == 13
PW_EAP_LEAP == 17
PW_EAP_TTLS == 21
PW_EAP_PEAP == 25
PW_EAP_PWD == 52
PW_EAP_MAX_TYPES == 54

PW_EAP_REQUEST == 1
PW_EAP_RESPONSE == 2
PW_EAP_SUCCESS == 3
PW_EAP_FAILURE == 4

(***************************************************************************)
(* Bounds of the model.                                                    *)
(***************************************************************************)
MaxNak == 3
MaxSessions == 1
MaxWorkers == 2
MaxInstances == 2
\* Method subsections in one configuration.
MaxSections == 2
MaxControl == 2
MaxAttrs == 2

(***************************************************************************)
(* Value universes the inputs are drawn from.                              *)
(***************************************************************************)
\* Methods a configuration may register (slots of inst->methods).
MethodTypes == {PW_EAP_LEAP, PW_EAP_PEAP}

\* Octets a peer may put in a NAK list: no alternative, a reserved type,
\* three method numbers (each registered or not), and one at
\* PW_EAP_MAX_TYPES.
NakOctets == {0, PW_EAP_NOTIFICATION, PW_EAP_MD5, PW_EAP_LEAP, PW_EAP_PEAP,
              PW_EAP_MAX_TYPES}

RECURSIVE SeqsUpTo(_, _)
SeqsUpTo(S, n) ==
    IF n = 0 THEN {<<>>}
    ELSE LET shorter == SeqsUpTo(S, n - 1)
         IN shorter \cup {Append(q, x) : q \in {r \in shorter : Len(r) = n - 1}, x \in S}

NakLists == SeqsUpTo(NakOctets, MaxNak)

\* control:EAP-Type as fr_pair_find_by_num returns it: absent, or a pair
\* carrying vp_integer.
NoVP == [present |-> FALSE, vp_integer |-> 0]
VP(v) == [present |-> TRUE, vp_integer |-> v]
PinValues == {NoVP} \cup {VP(v) : v \in {PW_EAP_NOTIFICATION, PW_EAP_MD5, PW_EAP_LEAP,
                                        PW_EAP_PEAP, PW_EAP_MAX_TYPES}}

VARIABLES inst, store, next_id, ev, terminal, trailer, nakcall, workers, registry, authz, rewrap, postauth, peapcall, boot

vars == <<inst, store, next_id, ev, terminal, trailer, nakcall, workers, registry, authz, rewrap, postauth, peapcall, boot>>

(***************************************************************************)
(* eap_process_nak                                                         *)
(***************************************************************************)
\* if (nak->data[i] == 0)
NakNoAlternative(e) == e = 0

\* Variant: reserved types are not refused.
NakBadType_off(e) == FALSE

\* if (nak->data[i] < PW_EAP_MD5)
NakBadType(e) == e < PW_EAP_MD5

\* if ((nak->data[i] >= PW_EAP_MAX_TYPES) || !inst->methods[nak->data[i]])
NakUnsupported(methods, e) == (e >= PW_EAP_MAX_TYPES) \/ (e \notin methods)

\* Variant: the running type is not skipped.
NakSameType_off(type, e) == FALSE

\* if (type == nak->data[i])
NakSameType(type, e) == type = e

\* Variant: the per-user pin is not enforced.
NakPinMismatch_off(vp, e) == FALSE

\* if (vp && (vp->vp_integer != nak->data[i]))
NakPinMismatch(vp, e) == vp.present /\ (vp.vp_integer # e)

\* The for loop from index i on.  Gives the method chosen and the number of
\* entries the loop has read when it leaves.
RECURSIVE NakLoop(_, _, _, _, _)
NakLoop(methods, type, vp, data, i) ==
    IF i > Len(data) THEN [method |-> PW_EAP_INVALID, examined |-> Len(data)]
    ELSE IF NakNoAlternative(data[i]) THEN [method |-> PW_EAP_INVALID, examined |-> i]
    ELSE IF NakBadType(data[i]) THEN [method |-> PW_EAP_INVALID, examined |-> i]
    ELSE IF NakUnsupported(methods, data[i]) THEN NakLoop(methods, type, vp, data, i + 1)
    ELSE IF NakSameType(type, data[i]) THEN NakLoop(methods, type, vp, data, i + 1)
    ELSE IF NakPinMismatch(vp, data[i]) THEN NakLoop(methods, type, vp, data, i + 1)
    ELSE [method |-> data[i], examined |-> i]

\* nak->data is NULL exactly when the NAK carries no type data (length 0).
NakScan(methods, type, vp, data) ==
    IF Len(data) = 0 THEN [method |-> PW_EAP_INVALID, examined |-> 0]
    ELSE NakLoop(methods, type, vp, data, 1)

eap_process_nak(methods, type, vp, data) == NakScan(methods, type, vp, data).method


(***************************************************************************)
(* Packets, rounds and sessions                                            *)
(***************************************************************************)
Pkt(c, n) == [code |-> c, num |-> n]
NoPkt == Pkt(0, 0)

\* eap_round_t: the peer's packet (response) and the packet to the peer
\* (request).  NoRound is the NULL pointer.
NoRound == [present |-> FALSE, response |-> NoPkt, request |-> NoPkt]
Round(resp) == [present |-> TRUE, response |-> resp, request |-> NoPkt]

\* eap_session->process: a method's session_init or its round handler.
NoProcess == [method |-> 0, fn |-> "NULL"]
SessionInit(m) == [method |-> m, fn |-> "session_init"]
Process(m) == [method |-> m, fn |-> "process"]

\* eap_session->opaque: NoOpaque is NULL, a method number is live state that
\* method allocated, FreedOpaque a pointer to memory already freed.
NoOpaque == 0
FreedOpaque == 0 - 1

\* A freshly allocated (zeroed) session bound to the peer's packet.
NewSession(id, resp) ==
    [id |-> id, type |-> PW_EAP_INVALID, process |-> NoProcess, opaque |-> NoOpaque,
     tls |-> FALSE, this_round |-> Round(resp), prev_round |-> NoRound]

\* Outcomes of one call into a method: where it fails (if it does) and the
\* packet it leaves in this_round->request (own: carrying its type number).
HandlerOutcomes ==
    {[rcode |-> 0, fail_at |-> f, code |-> 0, own |-> FALSE] : f \in {"alloc", "start"}}
    \cup {[rcode |-> 1, fail_at |-> "none", code |-> c, own |-> o] :
             c \in {PW_EAP_REQUEST, PW_EAP_SUCCESS}, o \in BOOLEAN}
    \cup {[rcode |-> 1, fail_at |-> "none", code |-> c, own |-> FALSE] :
             c \in {0, PW_EAP_RESPONSE, PW_EAP_FAILURE}}

NoOutcome == [rcode |-> 0, fail_at |-> "alloc", code |-> 0, own |-> FALSE]

OutcomePkt(h, out) == Pkt(out.code, IF out.own THEN h.method ELSE 0)

(***************************************************************************)
(* Method handlers                                                         *)
(***************************************************************************)
\* rlm_eap_peap mod_session_init
peap_mod_session_init(s, out) ==
    LET s1 == [s EXCEPT !.tls = TRUE]
    IN IF out.fail_at = "alloc"
       THEN [rcode |-> 0, session |-> [s1 EXCEPT !.opaque = NoOpaque]]
       ELSE IF out.fail_at = "start"
       THEN [rcode |-> 0, session |-> [s1 EXCEPT !.opaque = FreedOpaque]]
       ELSE [rcode |-> 1,
             session |-> [s1 EXCEPT !.opaque = PW_EAP_PEAP,
                                    !.this_round.request = Pkt(PW_EAP_REQUEST,
                                        IF out.own THEN PW_EAP_PEAP ELSE 0),
                                    !.process = Process(PW_EAP_PEAP)]]

\* What one call of rlm_eap_peap mod_process meets: the status eap_tls_process
\* returns, the code eap_peap_process returns when the tunnel is up, and
\* whether eap_tls_success manages to build the Success.
EapTlsStatus ==
    {"EAP_TLS_ESTABLISHED", "EAP_TLS_HANDLED", "EAP_TLS_RECORD_RECV_COMPLETE",
     "EAP_TLS_INVALID", "EAP_TLS_FAIL"}
TunnelUp == {"EAP_TLS_ESTABLISHED", "EAP_TLS_RECORD_RECV_COMPLETE"}
InnerRcodes ==
    {"RLM_MODULE_REJECT", "RLM_MODULE_HANDLED", "RLM_MODULE_OK", "RLM_MODULE_UPDATED",
     "RLM_MODULE_FAIL"}

\* peap->status as the round handler finds it (zeroed by peap_alloc, or
\* left by earlier rounds).
PeapStatuses ==
    {"PEAP_STATUS_INVALID", "PEAP_STATUS_TUNNEL_ESTABLISHED",
     "PEAP_STATUS_INNER_IDENTITY_REQ_SENT", "PEAP_STATUS_PHASE2"}

\* Every call: the TLS status, what eap_peap_process would return, whether
\* eap_tls_success would work, and peap->status on entry.
PeapCalls ==
    [status : EapTlsStatus, inner : InnerRcodes, success_ok : BOOLEAN,
     peap_status : PeapStatuses]

\* One representative of each way a call can go.
PeapOutcomes ==
    {o \in PeapCalls :
        /\ o.peap_status = "PEAP_STATUS_INVALID"
        /\ o.status \notin TunnelUp => o.inner = "RLM_MODULE_FAIL"
        /\ ~o.success_ok => (o.status \in TunnelUp /\ o.inner = "RLM_MODULE_OK")}

\* tls_session->prf_label, as mod_session_init set it.
PeapPrfLabel == "client EAP encryption"

\* switch (rcode) of rlm_eap_peap mod_process: the value returned and the
\* packet left in this_round->request (eap_tls_request: an EAP-Request of
\* the session's type; eap_tls_success: an EAP-Success; RLM_MODULE_UPDATED:
\* nothing, the inner request is being proxied).
\* Variant: a proxied inner request counts as a failure.
peap_inner_result_updated_fails(s, out) ==
    IF out.inner = "RLM_MODULE_REJECT"
    THEN [rcode |-> 0, pkt |-> Pkt(PW_EAP_FAILURE, 0), label |-> "none"]
    ELSE IF out.inner = "RLM_MODULE_HANDLED"
    THEN [rcode |-> 1, pkt |-> Pkt(PW_EAP_REQUEST, PW_EAP_PEAP), label |-> "none"]
    ELSE IF out.inner = "RLM_MODULE_OK"
    THEN IF out.success_ok
         THEN [rcode |-> 1, pkt |-> Pkt(PW_EAP_SUCCESS, 0), label |-> PeapPrfLabel]
         ELSE [rcode |-> 0, pkt |-> NoPkt, label |-> "none"]
    ELSE [rcode |-> 0, pkt |-> Pkt(PW_EAP_FAILURE, 0), label |-> "none"]

peap_inner_result(s, out) ==
    IF out.inner = "RLM_MODULE_REJECT"
    THEN [rcode |-> 0, pkt |-> Pkt(PW_EAP_FAILURE, 0), label |-> "none"]
    ELSE IF out.inner = "RLM_MODULE_HANDLED"
    THEN [rcode |-> 1, pkt |-> Pkt(PW_EAP_REQUEST, PW_EAP_PEAP), label |-> "none"]
    ELSE IF out.inner = "RLM_MODULE_OK"
    THEN IF out.success_ok
         THEN [rcode |-> 1, pkt |-> Pkt(PW_EAP_SUCCESS, 0), label |-> PeapPrfLabel]
         ELSE [rcode |-> 0, pkt |-> NoPkt, label |-> "none"]
    ELSE IF out.inner = "RLM_MODULE_UPDATED"
    THEN [rcode |-> 1, pkt |-> NoPkt, label |-> "none"]
    ELSE [rcode |-> 0, pkt |-> Pkt(PW_EAP_FAILURE, 0), label |-> "none"]

\* Variant: a handshake still in progress already marks the tunnel as up.
peap_tls_switch_eager(status, peap_status) ==
    IF status \in {"EAP_TLS_ESTABLISHED", "EAP_TLS_HANDLED"}
    THEN [ret |-> IF status = "EAP_TLS_HANDLED" THEN "1" ELSE "go",
          peap_status |-> "PEAP_STATUS_TUNNEL_ESTABLISHED"]
    ELSE IF status = "EAP_TLS_RECORD_RECV_COMPLETE"
    THEN [ret |-> "go", peap_status |-> peap_status]
    ELSE [ret |-> "0", peap_status |-> peap_status]

\* switch (status) of rlm_eap_peap mod_process: return 1, return 0, or go
\* on to the inner processing ("go"), and peap->status afterwards.
peap_tls_switch(status, peap_status) ==
    IF status = "EAP_TLS_ESTABLISHED"
    THEN [ret |-> "go", peap_status |-> "PEAP_STATUS_TUNNEL_ESTABLISHED"]
    ELSE IF status = "EAP_TLS_HANDLED" THEN [ret |-> "1", peap_status |-> peap_status]
    ELSE IF status = "EAP_TLS_RECORD_RECV_COMPLETE"
    THEN [ret |-> "go", peap_status |-> peap_status]
    ELSE [ret |-> "0", peap_status |-> peap_status]

\* rlm_eap_peap mod_process
peap_mod_process(s, out) ==
    LET sw == peap_tls_switch(out.status, out.peap_status)
        r == peap_inner_result(s, out)
    IN IF sw.ret = "1"
       THEN [rcode |-> 1,
             session |-> [s EXCEPT !.this_round.request = Pkt(PW_EAP_REQUEST, PW_EAP_PEAP)],
             peap_status |-> sw.peap_status, inner_called |-> FALSE, label |-> "none"]
       ELSE IF sw.ret = "0"
       THEN [rcode |-> 0, session |-> s, peap_status |-> sw.peap_status,
             inner_called |-> FALSE, label |-> "none"]
       ELSE [rcode |-> r.rcode, session |-> [s EXCEPT !.this_round.request = r.pkt],
             peap_status |-> sw.peap_status, inner_called |-> TRUE, label |-> r.label]

\* session_init of a method whose source is not part of this module: it
\* returns 0 on failure; on success it installs its state and round handler.
method_session_init(m, s, out) ==
    IF out.rcode = 0
    THEN [rcode |-> 0, session |-> s]
    ELSE [rcode |-> 1,
          session |-> [s EXCEPT !.opaque = m,
                                !.this_round.request = OutcomePkt(SessionInit(m), out),
                                !.process = Process(m)]]

\* A method's round handler: 0 on failure, else a packet for the peer (or
\* none, when the inner request was proxied).
method_process(m, s, out) ==
    IF out.rcode = 0
    THEN [rcode |-> 0, session |-> s]
    ELSE [rcode |-> 1,
          session |-> [s EXCEPT !.this_round.request = OutcomePkt(Process(m), out)]]

\* eap_session->process(method->submodule_inst, eap_session)
call_handler(h, s, out) ==
    IF h.fn = "session_init"
    THEN IF h.method = PW_EAP_PEAP THEN peap_mod_session_init(s, out)
         ELSE method_session_init(h.method, s, out)
    ELSE IF h.method = PW_EAP_PEAP THEN peap_mod_process(s, out)
    ELSE method_process(h.method, s, out)

\* The code eap_peap_process returned inside the handler ("none": the
\* handler is not PEAP's round handler, or it returned before step 2).
InnerOf(h, out) ==
    IF h = Process(PW_EAP_PEAP) /\ out.status \in TunnelUp THEN out.inner ELSE "none"

\* The outcomes a handler can have: PEAP's session_init sends an EAP-TLS
\* Start, an EAP-Request, when it succeeds.
OutcomesOf(h) ==
    IF h = SessionInit(PW_EAP_PEAP)
    THEN {o \in HandlerOutcomes : o.rcode = 0 \/ o.code = PW_EAP_REQUEST}
    ELSE IF h = Process(PW_EAP_PEAP) THEN PeapOutcomes
    ELSE HandlerOutcomes

\* No PEAP round has been observed.
NoPeapCall ==
    [in |-> [status |-> "EAP_TLS_FAIL", inner |-> "RLM_MODULE_FAIL", success_ok |-> TRUE,
             peap_status |-> "PEAP_STATUS_INVALID"],
     done |-> FALSE, handler |-> NoProcess, ret |-> 0, peap_status |-> "PEAP_STATUS_INVALID",
     inner_called |-> FALSE, pkt |-> NoPkt, label |-> "none",
     rcode |-> "none", reply_eap |-> 0, destroyed |-> FALSE]

(***************************************************************************)
(* mod_bootstrap                                                           *)
(***************************************************************************)
\* cf_section_name1 gave no name.
NoName == ""

\* The name of the section that holds the shared TLS settings.
TLS_CONFIG_SECTION == "tls"

\* Names a configuration can use for a subsection or for default_eap_type.
\* "unknown" is in no dictionary; "unsupported" names a type the
\* dictionary knows and the server has no slot for.
ConfigNames == {"md5", "peap", "tls", "identity", "unknown", "unsupported"}

\* eap_name2type
eap_name2type(name) ==
    IF name = "md5" THEN PW_EAP_MD5
    ELSE IF name = "peap" THEN PW_EAP_PEAP
    ELSE IF name = "tls" THEN PW_EAP_TLS
    ELSE IF name = "identity" THEN PW_EAP_IDENTITY
    ELSE IF name = "unsupported" THEN PW_EAP_MAX_TYPES
    ELSE PW_EAP_INVALID

\* A configuration: the subsections in file order, default_eap_type, whether
\* the build has OpenSSL, which subsections eap_method_instantiate fails
\* for, and whether the memory behind inst->methods[] reads as non-NULL.
BootConfigs ==
    [sections : SeqsUpTo(ConfigNames \cup {NoName}, MaxSections),
     default_method_name : ConfigNames,
     have_openssl : BOOLEAN,
     fails : SUBSET (1 .. MaxSections),
     beyond : BOOLEAN]

\* if ((method < PW_EAP_MD5) || (method >= PW_EAP_MAX_TYPES))
bootstrap_range_error(method) == (method < PW_EAP_MD5) \/ (method >= PW_EAP_MAX_TYPES)

\* The methods the build leaves out without OpenSSL.
NeedsOpenSSL == {PW_EAP_TLS, PW_EAP_TTLS, PW_EAP_PEAP, PW_EAP_PWD}

\* The loop over the subsections from the k-th on.  methods maps each
\* non-empty slot of inst->methods[] to the name of the section it was
\* instantiated from.
RECURSIVE load_methods(_, _, _, _)
load_methods(cfg, k, methods, num_methods) ==
    IF k > Len(cfg.sections)
    THEN [ret |-> 0, methods |-> methods, num_methods |-> num_methods]
    ELSE LET name == cfg.sections[k]
             method == eap_name2type(name)
             failed == [ret |-> -1, methods |-> methods, num_methods |-> num_methods]
         IN IF name = NoName THEN load_methods(cfg, k + 1, methods, num_methods)
            ELSE IF name = TLS_CONFIG_SECTION
            THEN load_methods(cfg, k + 1, methods, num_methods)
            ELSE IF method = PW_EAP_INVALID THEN failed
            ELSE IF bootstrap_range_error(method) THEN failed
            ELSE IF ~cfg.have_openssl /\ method \in NeedsOpenSSL
            THEN load_methods(cfg, k + 1, methods, num_methods)
            ELSE IF k \in cfg.fails
            THEN [failed EXCEPT
                     !.methods = [m \in DOMAIN methods \ {method} |-> methods[m]]]
            ELSE load_methods(cfg, k + 1, (method :> name) @@ methods, num_methods + 1)

\* if (!inst->methods[method]): a slot of the array is non-NULL when a
\* method was instantiated into it; an index past the array reads whatever
\* lies behind it.
slot_filled(methods, method, beyond) ==
    IF method < PW_EAP_MAX_TYPES THEN method \in DOMAIN methods ELSE beyond

\* mod_bootstrap: 0 or -1, inst->methods[] and inst->config.default_method.
mod_bootstrap(cfg) ==
    LET l == load_methods(cfg, 1, <<>>, 0)
        method == eap_name2type(cfg.default_method_name)
        failed == [ret |-> -1, methods |-> l.methods, num_methods |-> l.num_methods,
                   default_method |-> PW_EAP_INVALID]
    IN IF l.ret < 0 THEN failed
       ELSE IF l.num_methods = 0 THEN failed
       ELSE IF method = PW_EAP_INVALID THEN failed
       ELSE IF ~slot_filled(l.methods, method, cfg.beyond) THEN failed
       ELSE [failed EXCEPT !.ret = 0, !.default_method = method]

\* mod_bootstrap has not run.
NoBoot ==
    [cfg |-> [sections |-> <<>>, default_method_name |-> "md5", have_openssl |-> TRUE,
              fails |-> {}, beyond |-> FALSE],
     done |-> FALSE, ret |-> 0, methods |-> <<>>, num_methods |-> 0,
     default_method |-> PW_EAP_INVALID]

(***************************************************************************)
(* eap_method_select                                                       *)
(***************************************************************************)
\* The fields of a session that method selection may write.
Triple(s) == [type |-> s.type, process |-> s.process, opaque |-> s.opaque]

\* A record of an assignment to eap_session->type: old and new value, and
\* eap_session->opaque at the time of the assignment.
TypeWrite(s, new) == <<[from |-> s.type, to |-> new, opaque |-> s.opaque]>>

\* if ((type->num == 0) || (type->num >= PW_EAP_MAX_TYPES))
TypeOutOfRange(num) == (num = 0) \/ (num >= PW_EAP_MAX_TYPES)

\* if ((next < PW_EAP_MD5) || (next >= PW_EAP_MAX_TYPES) || (!inst->methods[next]))
NextUnsupported(methods, next) ==
    (next < PW_EAP_MD5) \/ (next >= PW_EAP_MAX_TYPES) \/ (next \notin methods)

\* Variant: control:EAP-Type is ignored.
IdentityNext_default(default_method, vp) == default_method

\* Identity: next is control:EAP-Type when present, else the default.
IdentityNext(default_method, vp) == IF vp.present THEN vp.vp_integer ELSE default_method

\* do_initiate: process := session_init of next, type := next.
do_initiate(s, next) ==
    [invalid |-> FALSE,
     session |-> [s EXCEPT !.process = SessionInit(next), !.type = next],
     writes |-> TypeWrite(s, next)]

SelectInvalid(s) == [invalid |-> TRUE, session |-> s, writes |-> <<>>]

\* case PW_EAP_IDENTITY
select_identity(in, s, vp) ==
    LET next == IdentityNext(in.default_method, vp)
    IN IF NextUnsupported(in.methods, next) THEN SelectInvalid(s)
       ELSE do_initiate(s, next)

\* case PW_EAP_NAK: free opaque, negotiate, initiate.
select_nak(in, s, vp, nak) ==
    LET s0 == [s EXCEPT !.opaque = NoOpaque]
        next == eap_process_nak(in.methods, s0.type, vp, nak)
    IN IF next = PW_EAP_INVALID THEN SelectInvalid(s0)
       ELSE do_initiate(s0, next)

\* default: the peer answers with a method type.
select_method(in, s, num) ==
    IF num \notin in.methods THEN SelectInvalid(s)
    ELSE [invalid |-> FALSE,
          session |-> [s EXCEPT !.type = num],
          writes |-> TypeWrite(s, num)]

\* Variant: a type outside the known range falls back to the default method.
select_dispatch_fallback(in, s, vp, nak, nested) ==
    LET num == s.this_round.response.num
    IN IF TypeOutOfRange(num) THEN do_initiate(s, in.default_method) @@ [branch |-> "range"]
       ELSE IF nested THEN SelectInvalid(s) @@ [branch |-> "nested"]
       ELSE IF num = PW_EAP_IDENTITY THEN select_identity(in, s, vp) @@ [branch |-> "identity"]
       ELSE IF num = PW_EAP_NAK THEN select_nak(in, s, vp, nak) @@ [branch |-> "nak"]
       ELSE select_method(in, s, num) @@ [branch |-> "method"]

\* eap_method_select up to the label module_call: either a return of
\* RLM_MODULE_INVALID or the session as the handler is about to see it.
select_dispatch(in, s, vp, nak, nested) ==
    LET num == s.this_round.response.num
    IN IF TypeOutOfRange(num) THEN SelectInvalid(s) @@ [branch |-> "range"]
       ELSE IF nested THEN SelectInvalid(s) @@ [branch |-> "nested"]
       ELSE IF num = PW_EAP_IDENTITY THEN select_identity(in, s, vp) @@ [branch |-> "identity"]
       ELSE IF num = PW_EAP_NAK THEN select_nak(in, s, vp, nak) @@ [branch |-> "nak"]
       ELSE select_method(in, s, num) @@ [branch |-> "method"]

\* module_call: the handler in eap_session->process runs with the
\* submodule instance of inst->methods[eap_session->type].
module_call(s, out) ==
    LET r == call_handler(s.process, s, out)
    IN [rcode |-> IF r.rcode = 0 THEN "invalid" ELSE "ok",
        session |-> r.session,
        called |-> TRUE,
        handler |-> s.process,
        submodule_inst |-> s.type,
        inner |-> InnerOf(s.process, out)]

NoCall(s) ==
    [rcode |-> "invalid", session |-> s, called |-> FALSE, handler |-> NoProcess,
     submodule_inst |-> 0, inner |-> "none"]

\* eap_method_select
eap_method_select(in, s, vp, nak, nested, out) ==
    LET d == select_dispatch(in, s, vp, nak, nested)
        c == IF d.invalid THEN NoCall(d.session) ELSE module_call(d.session, out)
    IN [rcode |-> c.rcode, session |-> c.session, branch |-> d.branch,
        writes |-> d.writes, called |-> c.called, handler |-> c.handler,
        submodule_inst |-> c.submodule_inst, inner |-> c.inner,
        before |-> Triple(s), after |-> Triple(c.session)]

NoSelect ==
    [rcode |-> "none", branch |-> "none", writes |-> <<>>, called |-> FALSE,
     handler |-> NoProcess, submodule_inst |-> 0, inner |-> "none",
     before |-> Triple(NewSession(0, NoPkt)), after |-> Triple(NewSession(0, NoPkt))]

SelectView(r) ==
    [rcode |-> r.rcode, branch |-> r.branch, writes |-> r.writes, called |-> r.called,
     handler |-> r.handler, submodule_inst |-> r.submodule_inst, inner |-> r.inner,
     before |-> r.before, after |-> r.after]

(***************************************************************************)
(* The session store and the packet helpers of the EAP library             *)
(***************************************************************************)
Without(st, id) == [k \in (DOMAIN st) \ {id} |-> st[k]]
With(st, s) == [k \in (DOMAIN st) \cup {s.id} |-> IF k = s.id THEN s ELSE st[k]]

\* eap_session_continue: thaw the session the correlator names and bind the
\* new round to it; without one, an Identity response opens a new session
\* and any other packet is an error (NULL).
eap_session_continue(st, nid, req) ==
    IF req.state \in DOMAIN st
    THEN [found |-> TRUE, created |-> FALSE,
          session |-> [st[req.state] EXCEPT !.this_round = Round(req.pkt)],
          store |-> Without(st, req.state), next_id |-> nid]
    ELSE IF req.pkt.num = PW_EAP_IDENTITY
    THEN [found |-> TRUE, created |-> TRUE, session |-> NewSession(nid, req.pkt),
          store |-> st, next_id |-> nid + 1]
    ELSE [found |-> FALSE, created |-> FALSE, session |-> NewSession(0, req.pkt),
          store |-> st, next_id |-> nid]

\* eap_session_thaw: the stored session, as it was frozen.
eap_session_thaw(st, req) ==
    IF req.state \in DOMAIN st
    THEN [found |-> TRUE, session |-> st[req.state], store |-> Without(st, req.state)]
    ELSE [found |-> FALSE, session |-> NewSession(0, NoPkt), store |-> st]

\* eap_session_freeze of a session that is still held: store it under its
\* correlator.  (A destroyed session is a NULL pointer: nothing is stored.)
eap_session_freeze(st, s) == With(st, s)

\* eap_fail: the packet to the peer becomes an EAP-Failure, composed into
\* the reply.
eap_fail(s) == [s EXCEPT !.this_round.request = Pkt(PW_EAP_FAILURE, 0)]

\* eap_compose: the packet in this_round->request is staged in the reply as
\* EAP-Message; the code it returns follows the EAP code.
eap_compose_rcode(code) ==
    IF code = PW_EAP_SUCCESS THEN "ok"
    ELSE IF code = PW_EAP_FAILURE THEN "reject"
    ELSE IF code \in {PW_EAP_REQUEST, PW_EAP_RESPONSE} THEN "handled"
    ELSE "ok"

\* eap_compose / eap_fail also set the code of the RADIUS reply from the
\* EAP code ("none": the reply code is left unset).
eap_compose_reply_code(code) ==
    IF code \in {PW_EAP_SUCCESS, PW_EAP_RESPONSE} THEN "Access-Accept"
    ELSE IF code = PW_EAP_FAILURE THEN "Access-Reject"
    ELSE IF code = PW_EAP_REQUEST THEN "Access-Challenge"
    ELSE "none"

(***************************************************************************)
(* mod_authenticate                                                        *)
(***************************************************************************)
\* Variant: || for &&.
RetainRequest_or(round) ==
    (round.request.code = PW_EAP_REQUEST) \/ (round.request.num >= PW_EAP_MD5)

\* Keep the session for another round?
\* (request is an EAP-Request of a method type) ...
RetainRequest(round) ==
    (round.request.code = PW_EAP_REQUEST) /\ (round.request.num >= PW_EAP_MD5)

\* Variant: the type of the Success is not looked at.
RetainLeap_anytype(round) ==
    /\ round.response.code = PW_EAP_RESPONSE
    /\ round.response.num = PW_EAP_LEAP
    /\ round.request.code = PW_EAP_SUCCESS

\* ... or LEAP stage 4: Response/LEAP answered by a Success with no type.
RetainLeap(round) ==
    /\ round.response.code = PW_EAP_RESPONSE
    /\ round.response.num = PW_EAP_LEAP
    /\ round.request.code = PW_EAP_SUCCESS
    /\ round.request.num = 0

\* Variant: a Success is kept whenever the session runs LEAP.
auth_retain_leap_success(round) ==
    RetainRequest(round) \/ RetainLeap(round)
    \/ (round.request.code \in {PW_EAP_SUCCESS, PW_EAP_FAILURE}
        /\ round.response.num = PW_EAP_LEAP)

auth_retain(round) == RetainRequest(round) \/ RetainLeap(round)

\* prev_round is freed and replaced by this_round; this_round becomes NULL.
advance_round(s) == [s EXCEPT !.prev_round = s.this_round, !.this_round = NoRound]

\* What a hook leaves behind: its return code, the store, and a record of
\* what it did with the session it held (sid = 0: it held none).
HookReturn(rcode, st, nid) ==
    [rcode |-> rcode, store |-> st, next_id |-> nid, sid |-> 0, created |-> FALSE,
     sel |-> NoSelect, round |-> NoRound, reply_eap |-> 0, destroyed |-> FALSE,
     retained |-> FALSE, prev_round |-> NoRound,
     reply_code |-> "none", added_user_name |-> FALSE, callback |-> "none",
     msg_auth |-> <<>>]

\* Variant: the failed session is frozen instead of destroyed.
auth_invalid_keep(c, sel) ==
    LET s == eap_fail(sel.session)
    IN [rcode |-> "invalid", store |-> eap_session_freeze(c.store, advance_round(s)),
        next_id |-> c.next_id, sid |-> s.id,
        created |-> c.created, sel |-> SelectView(sel), round |-> s.this_round,
        reply_eap |-> s.this_round.request.code, destroyed |-> FALSE, retained |-> TRUE,
        prev_round |-> s.this_round,
        reply_code |-> eap_compose_reply_code(s.this_round.request.code),
        added_user_name |-> FALSE, callback |-> "none"]

\* if (rcode == RLM_MODULE_INVALID) { eap_fail; eap_session_destroy; goto finish; }
auth_invalid(c, sel) ==
    LET s == eap_fail(sel.session)
    IN [rcode |-> "invalid", store |-> c.store, next_id |-> c.next_id, sid |-> s.id,
        created |-> c.created, sel |-> SelectView(sel), round |-> s.this_round,
        reply_eap |-> s.this_round.request.code, destroyed |-> TRUE, retained |-> FALSE,
        prev_round |-> NoRound,
        reply_code |-> eap_compose_reply_code(s.this_round.request.code),
        added_user_name |-> FALSE, callback |-> "none"]

\* Variant: a session that is not retained is not destroyed either.
auth_compose_leak(c, sel) ==
    LET s == sel.session
        round == s.this_round
        keep == auth_retain(round)
        kept == advance_round(s)
    IN [rcode |-> eap_compose_rcode(round.request.code),
        store |-> IF keep THEN eap_session_freeze(c.store, kept) ELSE c.store,
        next_id |-> c.next_id, sid |-> s.id, created |-> c.created,
        sel |-> SelectView(sel), round |-> round, reply_eap |-> round.request.code,
        destroyed |-> FALSE, retained |-> keep,
        prev_round |-> IF keep THEN kept.prev_round ELSE NoRound,
        reply_code |-> eap_compose_reply_code(round.request.code),
        added_user_name |-> FALSE, callback |-> "none"]

\* eap_compose, then retain the session or destroy it, then freeze.
auth_compose(c, sel) ==
    LET s == sel.session
        round == s.this_round
        keep == auth_retain(round)
        kept == advance_round(s)
    IN [rcode |-> eap_compose_rcode(round.request.code),
        store |-> IF keep THEN eap_session_freeze(c.store, kept) ELSE c.store,
        next_id |-> c.next_id, sid |-> s.id, created |-> c.created,
        sel |-> SelectView(sel), round |-> round, reply_eap |-> round.request.code,
        destroyed |-> ~keep, retained |-> keep,
        prev_round |-> IF keep THEN kept.prev_round ELSE NoRound,
        reply_code |-> eap_compose_reply_code(round.request.code),
        added_user_name |-> FALSE, callback |-> "none"]

\* Variant: the name is added to an Access-Challenge instead.
UserNameMissing_challenge(reply_code, req) ==
    /\ reply_code = "Access-Challenge"
    /\ req.username
    /\ ~req.reply_user_name

\* if ((request->reply->code == PW_CODE_ACCESS_ACCEPT) && request->username)
\*     if (!fr_pair_find_by_num(request->reply->vps, 0, PW_USER_NAME, TAG_ANY))
UserNameMissing(reply_code, req) ==
    /\ reply_code = "Access-Accept"
    /\ req.username
    /\ ~req.reply_user_name

\* The User-Name rule: a copy of request->username is added to the reply.
add_user_name(r, req) ==
    [r EXCEPT !.added_user_name = UserNameMissing(r.reply_code, req)]

\* mod_authenticate from eap_method_select on, for the session that
\* eap_session_continue gave it (c.store: the store as it is meanwhile).
auth_finish(in, c, req, out) ==
    LET sel == eap_method_select(in, c.session, req.vp, req.nak, req.nested, out)
    IN IF sel.rcode = "invalid" THEN auth_invalid(c, sel)
       ELSE add_user_name(auth_compose(c, sel), req)

\* Variant: the session the State names is dropped with the bad packet.
auth_malformed_destroy(st, nid, req) ==
    [HookReturn("fail", Without(st, req.state), nid) EXCEPT
        !.sid = req.state, !.destroyed = req.state \in DOMAIN st]

\* eap_vp2packet gave NULL: return RLM_MODULE_FAIL.
auth_malformed(st, nid, req) == HookReturn("fail", st, nid)

mod_authenticate(in, st, nid, req, out) ==
    IF ~req.has_eap THEN HookReturn("invalid", st, nid)
    ELSE IF ~req.decode_ok THEN auth_malformed(st, nid, req)
    ELSE LET c == eap_session_continue(st, nid, req)
         IN IF ~c.found THEN HookReturn("invalid", st, nid)
            ELSE auth_finish(in, c, req, out)

(***************************************************************************)
(* mod_post_proxy (the branch for a proxied tunnelled session)             *)
(***************************************************************************)
\* The round the tunnel callback works on: the session's own, or the one the
\* callback builds for the proxied reply.
callback_round(s, out) ==
    [present |-> TRUE,
     response |-> IF s.this_round.present THEN s.this_round.response ELSE s.prev_round.response,
     request |-> IF out.rcode = 0 THEN NoPkt ELSE OutcomePkt(Process(s.type), out)]

\* Variant: the failed session goes on to the freeze like a live one.
proxy_failed_frozen(t, nid, s) ==
    LET f == eap_fail(s)
    IN [HookReturn("reject", eap_session_freeze(t.store, advance_round(f)), nid) EXCEPT
           !.sid = s.id, !.round = f.this_round, !.reply_eap = f.this_round.request.code,
           !.retained = TRUE, !.callback = "failed",
           !.reply_code = eap_compose_reply_code(f.this_round.request.code)]

\* rcode == 0: eap_fail, eap_session_destroy, return RLM_MODULE_REJECT.
proxy_failed(t, nid, s) ==
    LET f == eap_fail(s)
    IN [HookReturn("reject", t.store, nid) EXCEPT
           !.sid = s.id, !.round = f.this_round, !.reply_eap = f.this_round.request.code,
           !.destroyed = TRUE, !.callback = "failed",
           !.reply_code = eap_compose_reply_code(f.this_round.request.code)]

\* eap_compose; retain on an EAP-Request of a method type, else destroy; freeze.
proxy_compose(t, nid, s) ==
    LET round == s.this_round
        keep == RetainRequest(round)
        kept == advance_round(s)
    IN [HookReturn("ok", IF keep THEN eap_session_freeze(t.store, kept) ELSE t.store, nid)
           EXCEPT !.sid = s.id, !.round = round, !.reply_eap = round.request.code,
                  !.destroyed = ~keep, !.retained = keep,
                  !.prev_round = IF keep THEN kept.prev_round ELSE NoRound,
                  !.callback = "ok",
                  !.reply_code = eap_compose_reply_code(round.request.code)]

\* mod_post_proxy, session branch, from the callback lookup on, for the
\* session eap_session_thaw gave it (t.store: the store as it is meanwhile).
proxy_finish(t, nid, req, out) ==
    IF ~req.has_callback
    THEN [HookReturn("fail", t.store, nid) EXCEPT !.sid = t.session.id,
                                                  !.destroyed = TRUE,
                                                  !.callback = "missing"]
    ELSE LET s == [t.session EXCEPT !.this_round = callback_round(t.session, out)]
         IN IF out.rcode = 0 THEN proxy_failed(t, nid, s)
            ELSE add_user_name(proxy_compose(t, nid, s), req)

(***************************************************************************)
(* mod_post_proxy without the marker: the leap:session-key rewrap          *)
(***************************************************************************)
\* Shared secrets, request authenticators and tunnel-password salts.
Secrets == {0, 1}
Vectors == {0, 1}
Salts == {0, 1}

\* What a tunnel password can hold in clear: the length octet and the key.
\* The last one has a length octet larger than the 31 octets that fit.
Plaintexts ==
    <<[len |-> 16, key |-> "A"], [len |-> 16, key |-> "B"], [len |-> 8, key |-> "C"],
      [len |-> 40, key |-> "D"]>>

PlainIndex(plain) == CHOOSE i \in 1 .. Len(Plaintexts) : Plaintexts[i] = plain

\* The keystream, derived from the secret, the authenticator and the salt.
Pad(secret, vector, salt) == (secret + 2 * vector + salt) % Len(Plaintexts)

\* The encrypted octets of a plaintext, and the plaintext of encrypted octets.
tunnel_password_encrypt(plain, secret, vector, salt) ==
    (PlainIndex(plain) - 1 + Pad(secret, vector, salt)) % Len(Plaintexts)

tunnel_password_decrypt(c, secret, vector, salt) ==
    Plaintexts[((c + Len(Plaintexts) - Pad(secret, vector, salt)) % Len(Plaintexts)) + 1]

\* A string value: its first 17 octets, its length, and the two salt octets
\* and the encrypted octets that follow the prefix.  (Replies come with salt
\* 0; the encoder draws its own from Salts.)
SessionKeyPrefix == "leap:session-key="
OtherValue == [prefix |-> "ip:inacl#1=permit", length |-> 27, salt |-> 0, c |-> 0]
ShortKeyValue == [prefix |-> SessionKeyPrefix, length |-> 27, salt |-> 0, c |-> 0]
SessionKeyValues ==
    {[prefix |-> SessionKeyPrefix, length |-> 17 + 34, salt |-> 0, c |-> c] :
        c \in 0 .. (Len(Plaintexts) - 1)}
AttrValues == {OtherValue, ShortKeyValue} \cup SessionKeyValues

\* The pairs of a proxy reply: Cisco-AVPair (vendor 9, attribute 1) and
\* another string attribute.
Attrs == {[attr |-> a, value |-> v] : a \in {"Cisco-AVPair", "Reply-Message"},
                                     v \in AttrValues}
AttrLists == SeqsUpTo(Attrs, MaxAttrs)

\* request->proxy->reply and what the recoding uses: the home server's
\* secret and the proxied packet's authenticator, the client's secret and
\* the request's authenticator, and what the encoder does (it can fail, and
\* it draws a fresh salt).
NoProxyReply ==
    [present |-> FALSE, vps |-> <<>>, home_secret |-> 0, proxy_vector |-> 0,
     client_secret |-> 0, request_vector |-> 0, encode_fails |-> FALSE, new_salt |-> 0]

ProxyReplies ==
    {NoProxyReply}
    \cup {[NoProxyReply EXCEPT !.present = TRUE, !.vps = l, !.home_secret = hs,
                                !.proxy_vector = pv, !.client_secret = cs,
                                !.request_vector = rv] :
            l \in AttrLists, hs \in Secrets, pv \in Vectors, cs \in Secrets, rv \in Vectors}

\* One run of the recoding: the proxy reply it was given and, once it has
\* run, Post-Proxy's return code, the reply's pairs afterwards and the
\* session the hook took from the store (0: none).
NoRewrap ==
    [in |-> NoProxyReply, done |-> FALSE, rcode |-> "none", vps_after |-> <<>>, sid |-> 0]

\* strncasecmp(vp->vp_strvalue, "leap:session-key=", 17) == 0
IsSessionKey(vp) == vp.value.prefix = SessionKeyPrefix

\* fr_cursor_next_by_num(&cursor, 9, 1, TAG_ANY): the next Cisco-AVPair
\* after position i, 0 at the end of the list.
fr_cursor_next_by_num(vps, i) ==
    LET later == {j \in (i + 1) .. Len(vps) : vps[j].attr = "Cisco-AVPair"}
    IN IF later = {} THEN 0 ELSE CHOOSE j \in later : \A k \in later : j <= k

\* The scan: it starts at fr_cursor_init's pair, the first of the list
\* whatever its attribute, and goes on through the Cisco-AVPairs; it stops
\* at the first pair whose value starts with the prefix.  0: none found.
RECURSIVE FindSessionKeyFrom(_, _)
FindSessionKeyFrom(vps, i) ==
    IF i = 0 THEN 0
    ELSE IF IsSessionKey(vps[i]) THEN i
    ELSE FindSessionKeyFrom(vps, fr_cursor_next_by_num(vps, i))

FindSessionKey(vps) == FindSessionKeyFrom(vps, IF Len(vps) = 0 THEN 0 ELSE 1)

\* fr_radius_decode_tunnel_password on the copy, in place: the plaintext
\* takes the place of the encrypted octets; a length octet that cannot be
\* right is an error.
fr_radius_decode_tunnel_password(v, secret, vector) ==
    LET plain == tunnel_password_decrypt(v.c, secret, vector, v.salt)
    IN [ret |-> IF plain.len > 31 THEN 0 - 1 ELSE 0, len |-> plain.len, plain |-> plain,
        buf |-> [v EXCEPT !.c = PlainIndex(plain) - 1]]

\* fr_radius_encode_tunnel_password of the 16 key octets of the copy, in
\* place, under a fresh salt.
fr_radius_encode_tunnel_password(buf, plain, secret, vector, salt, fails) ==
    [ret |-> IF fails THEN 0 - 1 ELSE 0,
     buf |-> [buf EXCEPT !.salt = salt,
                         !.c = tunnel_password_encrypt(plain, secret, vector, salt)]]

\* Variant: the recoding works on the pair's own value, not on a copy.
rewrap_fail_in_place(vps, i, buf) ==
    [rcode |-> "fail", vps |-> [vps EXCEPT ![i].value = buf]]

\* talloc_free(p); return RLM_MODULE_FAIL: the copy goes, the pair stays.
rewrap_fail(vps, i, buf) == [rcode |-> "fail", vps |-> vps]

\* fr_radius_encode_tunnel_password(p + 17, &len, request->client->secret,
\* request->packet->vector)
rewrap_encode(p, buf, plain) ==
    fr_radius_encode_tunnel_password(buf, plain, p.client_secret, p.request_vector,
                                     p.new_salt, p.encode_fails)

\* Lines 768-846: the rest of mod_post_proxy when the request has no marker.
leap_session_key_rewrap(p) ==
    IF ~p.present THEN [rcode |-> "noop", vps |-> p.vps]
    ELSE LET i == FindSessionKey(p.vps)
         IN IF i = 0 THEN [rcode |-> "noop", vps |-> p.vps]
            ELSE IF p.vps[i].value.length # 17 + 34 THEN [rcode |-> "noop", vps |-> p.vps]
            ELSE LET dec == fr_radius_decode_tunnel_password(p.vps[i].value, p.home_secret,
                                                             p.proxy_vector)
                     enc == rewrap_encode(p, dec.buf, dec.plain)
                 IN IF dec.ret < 0 THEN rewrap_fail(p.vps, i, dec.buf)
                    ELSE IF dec.len # 16 THEN rewrap_fail(p.vps, i, dec.buf)
                    ELSE IF enc.ret < 0 THEN rewrap_fail(p.vps, i, enc.buf)
                    ELSE [rcode |-> "updated", vps |-> [p.vps EXCEPT ![i].value = enc.buf]]

mod_post_proxy(st, nid, req, out) ==
    IF ~req.proxied THEN HookReturn(leap_session_key_rewrap(req.proxy).rcode, st, nid)
    ELSE LET t == eap_session_thaw(st, req)
         IN IF ~t.found THEN HookReturn("assert", st, nid)
            ELSE proxy_finish(t, nid, req, out)

(***************************************************************************)
(* mod_post_auth                                                           *)
(***************************************************************************)
\* Variant: a placeholder is added whatever the reply holds.
add_message_authenticator_always(reply_msg_auth) == <<"zero">>

\* The Message-Authenticator pairs the hook adds to the reply: a zero-filled
\* one of AUTH_VECTOR_LEN octets when fr_pair_find_by_num finds none.
add_message_authenticator(reply_msg_auth) ==
    IF Len(reply_msg_auth) = 0 THEN <<"zero">> ELSE <<>>

\* Variant: a reply that has an EAP-Message already is not told apart.
ReplyHasEapMessage_off(req) == FALSE

\* fr_pair_find_by_num(request->reply->vps, 0, PW_EAP_MESSAGE, TAG_ANY)
ReplyHasEapMessage(req) == req.reply_has_eap

mod_post_auth(st, nid, req) ==
    IF ~req.reject THEN HookReturn("noop", st, nid)
    ELSE IF ~req.has_eap THEN HookReturn("noop", st, nid)
    ELSE IF ReplyHasEapMessage(req) THEN HookReturn("noop", st, nid)
    ELSE IF ~req.decode_ok THEN HookReturn("fail", st, nid)
    ELSE LET c == eap_session_continue(st, nid, req)
         IN IF ~c.found THEN HookReturn("noop", st, nid)
            ELSE LET f == eap_fail(c.session)
                 IN [HookReturn("updated", c.store, c.next_id) EXCEPT
                        !.sid = f.id, !.created = c.created, !.round = f.this_round,
                        !.reply_eap = f.this_round.request.code, !.destroyed = TRUE,
                        !.reply_code = eap_compose_reply_code(f.this_round.request.code),
                        !.msg_auth = add_message_authenticator(req.reply_msg_auth)]

(***************************************************************************)
(* mod_authorize                                                           *)
(***************************************************************************)
\* Values of Auth-Type in the control list: REJECT, another module's name,
\* and the names an instance of this module can have (inst->name).
ModuleNames == {"EAP", "eap2"}
AuthTypes == {"Reject", "PAP"} \cup ModuleNames

\* The Auth-Type pairs of request->control, in list order.
ControlLists == SeqsUpTo(AuthTypes, MaxControl)

\* What eap_start can return.
EapStartStatus == {"noop", "fail", "handled", "ok", "updated"}

\* One call of mod_authorize: its inputs (is request->proxy set, the
\* instance name, eap_start's status, the control list, does
\* pair_make_config fail) and, once it has run, its result.
NoAuthz ==
    [proxy |-> FALSE, name |-> "EAP", status |-> "noop", control |-> <<>>,
     make_fails |-> FALSE, done |-> FALSE, rcode |-> "none", control_after |-> <<>>]

AuthzInputs ==
    {[NoAuthz EXCEPT !.proxy = p, !.name = n, !.status = s, !.control = c,
                     !.make_fails = f] :
        p \in BOOLEAN, n \in ModuleNames, s \in EapStartStatus, c \in ControlLists,
        f \in BOOLEAN}

\* Variant: any Auth-Type already in the list keeps the module from adding its own.
AuthTypeOpen_unset(control) == Len(control) = 0

\* vp = fr_pair_find_by_num(request->control, 0, PW_AUTH_TYPE, TAG_ANY);
\* if ((!vp) || (vp->vp_integer != PW_AUTH_TYPE_REJECT))
AuthTypeOpen(control) == (Len(control) = 0) \/ (control[1] # "Reject")

\* if (status == RLM_MODULE_OK) return RLM_MODULE_OK; return RLM_MODULE_UPDATED;
authorize_rcode(status) == IF status = "ok" THEN "ok" ELSE "updated"

mod_authorize(a) ==
    IF a.proxy THEN [rcode |-> "noop", control |-> a.control]
    ELSE IF a.status \in {"noop", "fail", "handled"}
    THEN [rcode |-> a.status, control |-> a.control]
    ELSE IF AuthTypeOpen(a.control)
    THEN IF a.make_fails THEN [rcode |-> "fail", control |-> a.control]
         ELSE [rcode |-> authorize_rcode(a.status), control |-> Append(a.control, a.name)]
    ELSE [rcode |-> authorize_rcode(a.status), control |-> a.control]

(***************************************************************************)
(* Requests                                                                *)
(***************************************************************************)
\* EAP type numbers a peer's packet may carry.
PeerTypes == {0, PW_EAP_IDENTITY, PW_EAP_NOTIFICATION, PW_EAP_NAK, PW_EAP_MD5,
              PW_EAP_LEAP, PW_EAP_PEAP, PW_EAP_MAX_TYPES}

\* The peer answers with an EAP-Response; the one EAP-Request a peer sends is
\* LEAP's AP challenge.
PeerPkts == {Pkt(PW_EAP_RESPONSE, n) : n \in PeerTypes} \cup {Pkt(PW_EAP_REQUEST, PW_EAP_LEAP)}

Correlators == 0 .. MaxSessions

\* control:EAP-Type is read for Identity and NAK only, the NAK list for NAK only.
PinsFor(pkt) == IF pkt.num \in {PW_EAP_IDENTITY, PW_EAP_NAK} THEN PinValues ELSE {NoVP}
\* NAK lists the peers of the hooks send: none, every single proposal, and
\* a few longer ones.  (SpecNak covers every list up to MaxNak.)
AuthNaks ==
    {<<>>} \cup {<<e>> : e \in NakOctets}
    \cup {<<PW_EAP_LEAP, PW_EAP_PEAP>>, <<PW_EAP_PEAP, PW_EAP_LEAP>>,
          <<PW_EAP_MAX_TYPES, PW_EAP_MD5, PW_EAP_LEAP>>, <<PW_EAP_PEAP, 0>>}
NaksFor(pkt) == IF pkt.num = PW_EAP_NAK THEN AuthNaks ELSE {<<>>}

\* request->username is set and the reply carries no User-Name yet, unless
\* said otherwise.
AuthRequest(e, d, c, pkt, vp, nak, nested) ==
    [has_eap |-> e, decode_ok |-> d, state |-> c, pkt |-> pkt, vp |-> vp, nak |-> nak,
     nested |-> nested, username |-> TRUE, reply_user_name |-> FALSE]

\* The same request with or without request->username, and with or without
\* a User-Name that policy has already put in the reply.  (They matter to a
\* round in which a method answers.)
Named(req) ==
    IF req.pkt.code = PW_EAP_RESPONSE /\ req.pkt.num \in MethodTypes /\ ~req.nested
    THEN {[req EXCEPT !.username = u, !.reply_user_name = r] : u, r \in BOOLEAN}
    ELSE {req}

AuthRequests ==
    {AuthRequest(e, FALSE, c, NoPkt, NoVP, <<>>, FALSE) : e \in BOOLEAN, c \in Correlators}
    \cup UNION {UNION {Named(AuthRequest(TRUE, TRUE, c, pkt, vp, nak, FALSE)) :
                    c \in Correlators, vp \in PinsFor(pkt), nak \in NaksFor(pkt)} :
                 pkt \in PeerPkts}
    \cup {AuthRequest(TRUE, TRUE, c, pkt, NoVP, <<>>, TRUE) :
             c \in Correlators, pkt \in PeerPkts}

\* Proxy replies with one Cisco-AVPair, for requests without the marker.
OnePairReplies ==
    {[NoProxyReply EXCEPT !.present = TRUE,
                          !.vps = <<[attr |-> "Cisco-AVPair", value |-> v]>>] :
        v \in AttrValues}

ProxyRequests ==
    {[proxied |-> p, state |-> c, has_callback |-> cb, username |-> TRUE,
      reply_user_name |-> FALSE, proxy |-> NoProxyReply] :
        p \in BOOLEAN, c \in Correlators, cb \in BOOLEAN}
    \cup {[proxied |-> TRUE, state |-> c, has_callback |-> TRUE, username |-> u,
           reply_user_name |-> r, proxy |-> NoProxyReply] :
             c \in Correlators, u \in BOOLEAN, r \in BOOLEAN}
    \cup {[proxied |-> FALSE, state |-> c, has_callback |-> FALSE, username |-> TRUE,
           reply_user_name |-> FALSE, proxy |-> p] :
             c \in Correlators, p \in OnePairReplies}

\* The Message-Authenticator pairs of a reply: none, or one that is set.
MessageAuthenticators == {<<>>, <<"set">>}

\* Post-Auth's inputs: is Post-Auth-Type Reject, has the request an
\* EAP-Message, has the reply one, does the packet decode, the correlator,
\* the packet, and the reply's Message-Authenticator pairs.
PostAuthInputs ==
    {[reject |-> r, has_eap |-> e, reply_has_eap |-> re, decode_ok |-> d, state |-> c,
      pkt |-> pkt, reply_msg_auth |-> m] :
        r \in BOOLEAN, e \in BOOLEAN, re \in BOOLEAN, d \in BOOLEAN, c \in Correlators,
        pkt \in {Pkt(PW_EAP_RESPONSE, n) : n \in {PW_EAP_IDENTITY, PW_EAP_MD5}},
        m \in MessageAuthenticators}

PostAuthRequests == {q \in PostAuthInputs : q.reply_msg_auth = <<>>}

\* One call of Post-Auth: the request, the store it found and, once it has
\* run, what it returned and did.
NoPostAuth ==
    [req |-> [reject |-> FALSE, has_eap |-> FALSE, reply_has_eap |-> FALSE,
              decode_ok |-> FALSE, state |-> 0, pkt |-> NoPkt, reply_msg_auth |-> <<>>],
     store |-> <<>>, done |-> FALSE, rcode |-> "none", sid |-> 0, reply_eap |-> 0,
     destroyed |-> FALSE, msg_auth |-> <<>>]

(***************************************************************************)
(* The state machine                                                       *)
(***************************************************************************)
Configs ==
    {[methods |-> M, default_method |-> d] : M \in (SUBSET MethodTypes) \ {{}}, d \in MethodTypes}

\* The request a worker has just processed and what the hook did with it:
\* the request's correlator, packet and control:EAP-Type, the hook's return
\* code and outcome, and whether the session it obtained had already been
\* sent its final packet (finished) or was due LEAP's trailing round (trailing).
EventRecord(hook, r, req, vp, fin, trl) ==
    [hook |-> hook, rcode |-> r.rcode, sid |-> r.sid, created |-> r.created,
     sel |-> r.sel, round |-> r.round, reply_eap |-> r.reply_eap,
     destroyed |-> r.destroyed, retained |-> r.retained, prev_round |-> r.prev_round,
     state |-> req.state, pkt |-> req.pkt, vp |-> vp,
     finished |-> fin, trailing |-> trl,
     username |-> req.username, reply_user_name |-> req.reply_user_name,
     reply_code |-> r.reply_code, added_user_name |-> r.added_user_name,
     callback |-> r.callback, has_eap |-> req.has_eap, decode_ok |-> req.decode_ok]

Event(hook, r, req, vp) ==
    EventRecord(hook, r, req, vp, r.sid \in terminal, r.sid \in trailer)

NoRequest ==
    [state |-> 0, pkt |-> NoPkt, username |-> FALSE, reply_user_name |-> FALSE,
     has_eap |-> FALSE, decode_ok |-> FALSE]

NoNakCall ==
    [methods |-> {}, type |-> 0, vp |-> NoVP, data |-> <<>>, done |-> FALSE,
     method |-> 0, examined |-> 0]

\* The peer has been sent an EAP-Success or EAP-Failure on the session, and
\* it is not LEAP's Success that precedes the AP challenge.
LeapSuccess(hook, round) ==
    /\ hook = "authenticate"
    /\ round.response = Pkt(PW_EAP_RESPONSE, PW_EAP_LEAP)
    /\ round.request = Pkt(PW_EAP_SUCCESS, 0)

EmitsFinal(hook, r) ==
    /\ r.sid # 0
    /\ r.reply_eap \in {PW_EAP_SUCCESS, PW_EAP_FAILURE}
    /\ ~LeapSuccess(hook, r.round)

\* The session was kept after LEAP's Success: its trailing round is due.
AwaitsTrailer(hook, r) ==
    r.sid \in DOMAIN r.store /\ r.reply_eap = PW_EAP_SUCCESS /\ LeapSuccess(hook, r.round)

Record(hook, r, req, vp) ==
    /\ store' = r.store
    /\ next_id' = r.next_id
    /\ ev' = Event(hook, r, req, vp)
    /\ terminal' = IF EmitsFinal(hook, r) THEN terminal \cup {r.sid} ELSE terminal
    /\ trailer' = IF AwaitsTrailer(hook, r) THEN trailer \cup {r.sid} ELSE trailer \ {r.sid}
    /\ UNCHANGED <<inst, nakcall, workers, registry, authz, rewrap, postauth, peapcall, boot>>

\* A request may open a session only while correlators are left: one that
\* finds its session, or that cannot open one, is always accepted.
CanContinue(req) ==
    \/ req.state \in DOMAIN store
    \/ req.pkt.num # PW_EAP_IDENTITY
    \/ next_id <= MaxSessions

\* A request that is given no session is refused before its pin, NAK list
\* or names are looked at: one such request stands for all of them.
Plain(req) ==
    /\ req.vp = NoVP
    /\ req.nak = <<>>
    /\ req.username
    /\ ~req.reply_user_name
GetsSession(req) == (req.state \in DOMAIN store) \/ (req.pkt.num = PW_EAP_IDENTITY)

\* No request is being processed: the last reply has been sent.
(***************************************************************************)
(* Method handles: eap_method_instantiate and _eap_method_free              *)
(***************************************************************************)
\* Instances of rlm_eap the server configures.
Instances == 1 .. MaxInstances

\* The code module of a method as the loader keeps it: loaded or not, and
\* the number of references taken on it.
NoModule == [loaded |-> FALSE, refs |-> 0]

\* rlm_eap_method_t of one instance and method number: where it is in its
\* life ("none": never allocated; "unlinked": allocated, no module;
\* "live": in inst->methods[]; "destructor": talloc_free has called
\* _eap_method_free; "children_freed": its first statement has run;
\* "freed"), whether submodule_handle is set, whether memory is parented to
\* it, and how often its destructor has dropped a reference.
NoMethod == [state |-> "none", handle |-> FALSE, children |-> FALSE, decs |-> 0]

\* Nothing loaded, every instance allocated, no method instantiated, no
\* session running.
NoRegistry ==
    [module |-> [m \in MethodTypes |-> NoModule],
     alive |-> Instances,
     method |-> [i \in Instances |-> [m \in MethodTypes |-> NoMethod]],
     sessions |-> {}]

\* dl_module: load the module if need be and take a reference.
dl_module(reg, m) ==
    [reg EXCEPT !.module[m] = [loaded |-> TRUE, refs |-> @.refs + 1]]

\* talloc_decrease_ref_count(method->submodule_handle): a NULL handle is
\* left alone; the module is unloaded with its last reference.
talloc_decrease_ref_count(reg, m, handle) ==
    IF ~handle THEN reg
    ELSE [reg EXCEPT !.module[m] = [loaded |-> @.refs > 1, refs |-> @.refs - 1]]

\* Where eap_method_instantiate can fail.
InstantiateOutcomes == {"dl_module", "dl_module_instance_data_alloc", "instantiate", "ok"}

\* eap_method_instantiate: the method structure is allocated under inst
\* with its destructor; a failure after dl_module frees it at once.
eap_method_instantiate(reg, i, m, out) ==
    IF out = "dl_module"
    THEN [reg EXCEPT !.method[i][m] = [NoMethod EXCEPT !.state = "unlinked"]]
    ELSE [dl_module(reg, m) EXCEPT
             !.method[i][m] = [state |-> IF out = "ok" THEN "live" ELSE "destructor",
                               handle |-> TRUE,
                               children |-> out # "dl_module_instance_data_alloc",
                               decs |-> 0]]

\* _eap_method_free, first statement: talloc_free_children(method).
eap_method_free_children(reg, i, m) ==
    [reg EXCEPT !.method[i][m].children = FALSE,
                !.method[i][m].state = "children_freed"]

\* _eap_method_free, second statement: drop the reference on the module.
eap_method_free_decrease(reg, i, m) ==
    [talloc_decrease_ref_count(reg, m, reg.method[i][m].handle) EXCEPT
        !.method[i][m].state = "freed",
        !.method[i][m].decs = @ + 1]

\* talloc_free(inst): the instance goes, and the destructor of every method
\* structure allocated under it is called.
instance_free(reg, i) ==
    [reg EXCEPT !.alive = @ \ {i},
                !.method[i] = [m \in MethodTypes |->
                                  IF @[m].state \in {"unlinked", "live"}
                                  THEN [@[m] EXCEPT !.state = "destructor"]
                                  ELSE @[m]]]

\* A worker thread between requests.
IdleWorker ==
    [pc |-> "idle", hook |-> "none", req |-> NoRequest, session |-> NewSession(0, NoPkt)]
NoWorkers == [w \in 1 .. MaxWorkers |-> IdleWorker]

NoEvent == EventRecord("none", HookReturn("none", <<>>, 1), NoRequest, NoVP, FALSE, FALSE)
Idle == ev.hook = "none"

Init ==
    /\ inst \in {c \in Configs : c.default_method \in c.methods}
    /\ store = <<>>
    /\ next_id = 1
    /\ ev = NoEvent
    /\ terminal = {}
    /\ trailer = {}
    /\ nakcall = NoNakCall
    /\ workers = NoWorkers
    /\ registry = NoRegistry
    /\ authz = NoAuthz
    /\ rewrap = NoRewrap
    /\ postauth = NoPostAuth
    /\ peapcall = NoPeapCall
    /\ boot = NoBoot

Authenticate ==
    \E req \in AuthRequests :
        /\ Idle
        /\ CanContinue(req)
        /\ GetsSession(req) \/ Plain(req)
        /\ LET c == eap_session_continue(store, next_id, req)
               d == select_dispatch(inst, c.session, req.vp, req.nak, req.nested)
               calls == req.has_eap /\ req.decode_ok /\ c.found /\ ~d.invalid
           IN \E out \in (IF calls THEN OutcomesOf(d.session.process) ELSE {NoOutcome}) :
                 Record("authenticate", mod_authenticate(inst, store, next_id, req, out),
                        req, req.vp)

PostProxy ==
    \E req \in ProxyRequests :
        /\ Idle
        /\ \E out \in (IF req.proxied /\ req.has_callback /\ req.state \in DOMAIN store
                    THEN HandlerOutcomes ELSE {NoOutcome}) :
            Record("post_proxy", mod_post_proxy(store, next_id, req, out),
                   [NoRequest EXCEPT !.state = req.state, !.username = req.username,
                                     !.reply_user_name = req.reply_user_name], NoVP)

PostAuth ==
    \E req \in PostAuthRequests :
        /\ Idle
        /\ CanContinue(req)
        /\ Record("post_auth", mod_post_auth(store, next_id, req),
                  [NoRequest EXCEPT !.state = req.state, !.pkt = req.pkt], NoVP)

\* The hook has returned: the reply goes out and the request is freed.
Reply ==
    /\ ~Idle
    /\ ev' = NoEvent
    /\ UNCHANGED <<inst, store, next_id, terminal, trailer, nakcall, workers, registry, authz, rewrap, postauth, peapcall, boot>>

Next == Authenticate \/ PostProxy \/ PostAuth \/ Reply

Spec == Init /\ [][Next]_vars

(***************************************************************************)
(* NAK negotiation on its own: every list, registry, running type and pin  *)
(***************************************************************************)
\* Here MD5 may be registered too, so that three methods can compete.
NakMethodTypes == MethodTypes \cup {PW_EAP_MD5}

NakInputs ==
    {[NoNakCall EXCEPT !.methods = M, !.type = t, !.vp = vp, !.data = data] :
        M \in (SUBSET NakMethodTypes) \ {{}}, t \in NakMethodTypes, vp \in PinValues,
        data \in NakLists}

InitNak ==
    /\ nakcall \in {n \in NakInputs : n.type \in n.methods}
    /\ inst = [methods |-> nakcall.methods, default_method |-> nakcall.type]
    /\ store = <<>>
    /\ next_id = 1
    /\ ev = NoEvent
    /\ terminal = {}
    /\ trailer = {}
    /\ workers = NoWorkers
    /\ registry = NoRegistry
    /\ authz = NoAuthz
    /\ rewrap = NoRewrap
    /\ postauth = NoPostAuth
    /\ peapcall = NoPeapCall
    /\ boot = NoBoot

NakCall ==
    /\ ~nakcall.done
    /\ LET r == NakScan(nakcall.methods, nakcall.type, nakcall.vp, nakcall.data)
       IN nakcall' = [nakcall EXCEPT !.done = TRUE,
                                     !.method = eap_process_nak(nakcall.methods, nakcall.type,
                                                                nakcall.vp, nakcall.data),
                                     !.examined = r.examined]
    /\ UNCHANGED <<inst, store, next_id, ev, terminal, trailer, workers, registry, authz, rewrap, postauth, peapcall, boot>>

NextNak == NakCall

SpecNak == InitNak /\ [][NextNak]_vars

(***************************************************************************)
(* Hooks on parallel workers: a hook is two steps, obtaining its session   *)
(* and everything after it up to the freeze                                *)
(***************************************************************************)
Workers == 1 .. MaxWorkers

\* Requests the workers are given: rounds of a tunnelled conversation (a
\* retransmission is the same request once more) and proxy replies.
WorkerAuthRequests ==
    {AuthRequest(TRUE, TRUE, c, Pkt(PW_EAP_RESPONSE, n), NoVP, <<>>, FALSE) :
        c \in Correlators, n \in {PW_EAP_IDENTITY, PW_EAP_PEAP}}
WorkerProxyRequests ==
    {[proxied |-> TRUE, state |-> c, has_callback |-> cb, username |-> TRUE,
      reply_user_name |-> FALSE] :
        c \in Correlators, cb \in BOOLEAN}

Working(hook, req, found, s) ==
    [pc |-> IF found THEN "held" ELSE "lost", hook |-> hook, req |-> req, session |-> s]

\* Variant: the session is frozen again as soon as it has been obtained.
auth_hold_frozen(c) == IF c.found THEN eap_session_freeze(c.store, c.session) ELSE c.store

\* The store while mod_authenticate works on its session: nothing is put
\* back between eap_session_continue and the eap_session_freeze at the end.
auth_hold(c) == c.store

\* The store while mod_post_proxy works on its session.
proxy_hold(t) == t.store

\* mod_authenticate up to eap_session_continue.
WorkerAuthBegin ==
    \E w \in Workers, req \in WorkerAuthRequests :
        /\ workers[w].pc = "idle"
        /\ CanContinue(req)
        /\ LET c == eap_session_continue(store, next_id, req)
           IN /\ store' = auth_hold(c)
              /\ next_id' = c.next_id
              /\ workers' = [workers EXCEPT
                                ![w] = Working("authenticate", req, c.found, c.session)]
        /\ UNCHANGED <<inst, ev, terminal, trailer, nakcall, registry, authz, rewrap, postauth, peapcall, boot>>

\* mod_authenticate from eap_method_select to its return.
WorkerAuthFinish ==
    \E w \in Workers :
        /\ workers[w].pc = "held"
        /\ workers[w].hook = "authenticate"
        /\ LET req == workers[w].req
               c == [found |-> TRUE, created |-> FALSE, session |-> workers[w].session,
                     store |-> store, next_id |-> next_id]
               d == select_dispatch(inst, c.session, req.vp, req.nak, req.nested)
           IN \E out \in (IF d.invalid THEN {NoOutcome} ELSE OutcomesOf(d.session.process)) :
                 store' = auth_finish(inst, c, req, out).store
        /\ workers' = [workers EXCEPT ![w] = IdleWorker]
        /\ UNCHANGED <<inst, next_id, ev, terminal, trailer, nakcall, registry, authz, rewrap, postauth, peapcall, boot>>

\* mod_post_proxy up to eap_session_thaw.
WorkerProxyBegin ==
    \E w \in Workers, req \in WorkerProxyRequests :
        /\ workers[w].pc = "idle"
        /\ LET t == eap_session_thaw(store, req)
           IN /\ store' = proxy_hold(t)
              /\ workers' = [workers EXCEPT
                                ![w] = Working("post_proxy", req, t.found, t.session)]
        /\ UNCHANGED <<inst, next_id, ev, terminal, trailer, nakcall, registry, authz, rewrap, postauth, peapcall, boot>>

\* mod_post_proxy from the callback to its return.
WorkerProxyFinish ==
    \E w \in Workers, out \in HandlerOutcomes :
        /\ workers[w].pc = "held"
        /\ workers[w].hook = "post_proxy"
        /\ LET t == [found |-> TRUE, session |-> workers[w].session, store |-> store]
           IN store' = proxy_finish(t, next_id, workers[w].req, out).store
        /\ workers' = [workers EXCEPT ![w] = IdleWorker]
        /\ UNCHANGED <<inst, next_id, ev, terminal, trailer, nakcall, registry, authz, rewrap, postauth, peapcall, boot>>

\* The hook found no session and has returned.
WorkerReturn ==
    \E w \in Workers :
        /\ workers[w].pc = "lost"
        /\ workers' = [workers EXCEPT ![w] = IdleWorker]
        /\ UNCHANGED <<inst, store, next_id, ev, terminal, trailer, nakcall, registry, authz, rewrap, postauth, peapcall, boot>>

NextWorkers ==
    WorkerAuthBegin \/ WorkerAuthFinish \/ WorkerProxyBegin \/ WorkerProxyFinish
    \/ WorkerReturn

\* Both methods are registered; either may be the default.
InitWorkers ==
    /\ inst \in {c \in Configs : c.methods = MethodTypes}
    /\ store = <<>>
    /\ next_id = 1
    /\ ev = NoEvent
    /\ terminal = {}
    /\ trailer = {}
    /\ nakcall = NoNakCall
    /\ workers = NoWorkers
    /\ registry = NoRegistry
    /\ authz = NoAuthz
    /\ rewrap = NoRewrap
    /\ postauth = NoPostAuth
    /\ peapcall = NoPeapCall
    /\ boot = NoBoot

SpecWorkers == InitWorkers /\ [][NextWorkers]_vars

(***************************************************************************)
(* The life of method handles, instances and the sessions that use them    *)
(***************************************************************************)
\* mod_bootstrap instantiates a configured method.
MethodInstantiate ==
    \E i \in registry.alive, m \in MethodTypes, out \in InstantiateOutcomes :
        /\ registry.method[i][m].state = "none"
        /\ registry' = eap_method_instantiate(registry, i, m, out)
        /\ UNCHANGED <<inst, store, next_id, ev, terminal, trailer, nakcall, workers, authz, rewrap, postauth, peapcall, boot>>

MethodFreeChildren ==
    \E i \in Instances, m \in MethodTypes :
        /\ registry.method[i][m].state = "destructor"
        /\ registry' = eap_method_free_children(registry, i, m)
        /\ UNCHANGED <<inst, store, next_id, ev, terminal, trailer, nakcall, workers, authz, rewrap, postauth, peapcall, boot>>

MethodDecreaseRef ==
    \E i \in Instances, m \in MethodTypes :
        /\ registry.method[i][m].state = "children_freed"
        /\ registry' = eap_method_free_decrease(registry, i, m)
        /\ UNCHANGED <<inst, store, next_id, ev, terminal, trailer, nakcall, workers, authz, rewrap, postauth, peapcall, boot>>

\* The server frees an instance of rlm_eap.
InstanceFree ==
    \E i \in registry.alive :
        /\ registry' = instance_free(registry, i)
        /\ UNCHANGED <<inst, store, next_id, ev, terminal, trailer, nakcall, workers, authz, rewrap, postauth, peapcall, boot>>

\* Method selection starts method m on a session: the session's process
\* handler and method state belong to the module's code from now on.
SessionOpen ==
    \E i \in registry.alive, m \in MethodTypes :
        /\ registry.method[i][m].state = "live"
        /\ <<i, m>> \notin registry.sessions
        /\ registry' = [registry EXCEPT !.sessions = @ \cup {<<i, m>>}]
        /\ UNCHANGED <<inst, store, next_id, ev, terminal, trailer, nakcall, workers, authz, rewrap, postauth, peapcall, boot>>

\* eap_session_destroy, or eviction from the store.
SessionClose ==
    \E s \in registry.sessions :
        /\ registry' = [registry EXCEPT !.sessions = @ \ {s}]
        /\ UNCHANGED <<inst, store, next_id, ev, terminal, trailer, nakcall, workers, authz, rewrap, postauth, peapcall, boot>>

NextRegistry ==
    MethodInstantiate \/ MethodFreeChildren \/ MethodDecreaseRef \/ InstanceFree
    \/ SessionOpen \/ SessionClose

SpecRegistry == Init /\ [][NextRegistry]_vars

(***************************************************************************)
(* One PEAP round on its own: every TLS status, every inner result and     *)
(* every tunnel status on entry, for a stored PEAP session                 *)
(***************************************************************************)
PeapInst == [methods |-> MethodTypes, default_method |-> PW_EAP_PEAP]

\* A PEAP session as the Identity round leaves it in the store: PEAP's
\* session_init has sent its Start.
PeapIdentityRound ==
    mod_authenticate(PeapInst, <<>>, 1,
                     AuthRequest(TRUE, TRUE, 0, Pkt(PW_EAP_RESPONSE, PW_EAP_IDENTITY),
                                 NoVP, <<>>, FALSE),
                     [rcode |-> 1, fail_at |-> "none", code |-> PW_EAP_REQUEST,
                      own |-> TRUE])

\* The peer's PEAP response, with the State of the stored session.
PeapResponse ==
    AuthRequest(TRUE, TRUE, 1, Pkt(PW_EAP_RESPONSE, PW_EAP_PEAP), NoVP, <<>>, FALSE)

InitPeap ==
    /\ peapcall \in {[NoPeapCall EXCEPT !.in = o] : o \in PeapCalls}
    /\ inst = PeapInst
    /\ store = PeapIdentityRound.store
    /\ next_id = PeapIdentityRound.next_id
    /\ ev = NoEvent
    /\ terminal = {}
    /\ trailer = {}
    /\ nakcall = NoNakCall
    /\ workers = NoWorkers
    /\ registry = NoRegistry
    /\ authz = NoAuthz
    /\ rewrap = NoRewrap
    /\ postauth = NoPostAuth
    /\ boot = NoBoot

\* Authenticate on the PEAP response: the dispatcher thaws the session and
\* calls PEAP's round handler, which meets peapcall.in.
PeapRound ==
    /\ ~peapcall.done
    /\ LET c == eap_session_continue(store, next_id, PeapResponse)
           d == select_dispatch(inst, c.session, NoVP, <<>>, FALSE)
           h == call_handler(d.session.process, d.session, peapcall.in)
           r == mod_authenticate(inst, store, next_id, PeapResponse, peapcall.in)
       IN /\ peapcall' = [peapcall EXCEPT
                 !.done = TRUE, !.handler = r.sel.handler, !.ret = h.rcode,
                 !.peap_status = h.peap_status, !.inner_called = h.inner_called,
                 !.pkt = h.session.this_round.request, !.label = h.label,
                 !.rcode = r.rcode, !.reply_eap = r.reply_eap, !.destroyed = r.destroyed]
          /\ store' = r.store
          /\ next_id' = r.next_id
    /\ UNCHANGED <<inst, ev, terminal, trailer, nakcall, workers, registry, authz, rewrap,
                   postauth, boot>>

NextPeap == PeapRound

SpecPeap == InitPeap /\ [][NextPeap]_vars

(***************************************************************************)
(* Bootstrap on its own: every short configuration                         *)
(***************************************************************************)
InitBootstrap ==
    /\ boot \in {[NoBoot EXCEPT !.cfg = c] : c \in BootConfigs}
    /\ inst = [methods |-> {}, default_method |-> PW_EAP_INVALID]
    /\ store = <<>>
    /\ next_id = 1
    /\ ev = NoEvent
    /\ terminal = {}
    /\ trailer = {}
    /\ nakcall = NoNakCall
    /\ workers = NoWorkers
    /\ registry = NoRegistry
    /\ authz = NoAuthz
    /\ rewrap = NoRewrap
    /\ postauth = NoPostAuth
    /\ peapcall = NoPeapCall

\* The server loads the module: mod_bootstrap runs on the configuration.
Bootstrap ==
    /\ ~boot.done
    /\ LET r == mod_bootstrap(boot.cfg)
       IN /\ boot' = [boot EXCEPT !.done = TRUE, !.ret = r.ret, !.methods = r.methods,
                                  !.num_methods = r.num_methods,
                                  !.default_method = r.default_method]
          /\ inst' = [methods |-> DOMAIN r.methods, default_method |-> r.default_method]
    /\ UNCHANGED <<store, next_id, ev, terminal, trailer, nakcall, workers, registry, authz,
                   rewrap, postauth, peapcall>>

NextBootstrap == Bootstrap

SpecBootstrap == InitBootstrap /\ [][NextBootstrap]_vars

(***************************************************************************)
(* The recoding on its own: every short proxy reply, beside a stored session *)
(***************************************************************************)
\* A LEAP session as the Identity round leaves it in the store.
IdentityRound ==
    mod_authenticate([methods |-> MethodTypes, default_method |-> PW_EAP_LEAP], <<>>, 1,
                     AuthRequest(TRUE, TRUE, 0, Pkt(PW_EAP_RESPONSE, PW_EAP_IDENTITY),
                                 NoVP, <<>>, FALSE),
                     [rcode |-> 1, fail_at |-> "none", code |-> PW_EAP_REQUEST,
                      own |-> TRUE])

InitRewrap ==
    /\ rewrap \in {[NoRewrap EXCEPT !.in = p] : p \in ProxyReplies}
    /\ inst = [methods |-> MethodTypes, default_method |-> PW_EAP_LEAP]
    /\ store = IdentityRound.store
    /\ next_id = IdentityRound.next_id
    /\ ev = NoEvent
    /\ terminal = {}
    /\ trailer = {}
    /\ nakcall = NoNakCall
    /\ workers = NoWorkers
    /\ registry = NoRegistry
    /\ authz = NoAuthz
    /\ postauth = NoPostAuth
    /\ peapcall = NoPeapCall
    /\ boot = NoBoot

\* Post-Proxy on a request without the marker whose State names the stored
\* session.
Rewrap ==
    /\ ~rewrap.done
    /\ \E fails \in BOOLEAN, salt \in Salts :
          LET p == [rewrap.in EXCEPT !.encode_fails = fails, !.new_salt = salt]
              req == [proxied |-> FALSE, state |-> 1, has_callback |-> FALSE,
                      username |-> TRUE, reply_user_name |-> FALSE, proxy |-> p]
              r == mod_post_proxy(store, next_id, req, NoOutcome)
          IN /\ rewrap' = [in |-> p, done |-> TRUE, rcode |-> r.rcode,
                           vps_after |-> leap_session_key_rewrap(p).vps, sid |-> r.sid]
             /\ store' = r.store
             /\ next_id' = r.next_id
    /\ UNCHANGED <<inst, ev, terminal, trailer, nakcall, workers, registry, authz, postauth, peapcall, boot>>

NextRewrap == Rewrap

SpecRewrap == InitRewrap /\ [][NextRewrap]_vars

(***************************************************************************)
(* Post-Auth on its own: every request, with and without a stored session  *)
(***************************************************************************)
InitPostAuth ==
    /\ postauth \in {[NoPostAuth EXCEPT !.req = q, !.store = s] :
                        q \in PostAuthInputs, s \in {<<>>, IdentityRound.store}}
    /\ inst = [methods |-> MethodTypes, default_method |-> PW_EAP_LEAP]
    /\ store = postauth.store
    /\ next_id = Len(postauth.store) + 1
    /\ ev = NoEvent
    /\ terminal = {}
    /\ trailer = {}
    /\ nakcall = NoNakCall
    /\ workers = NoWorkers
    /\ registry = NoRegistry
    /\ authz = NoAuthz
    /\ rewrap = NoRewrap
    /\ peapcall = NoPeapCall
    /\ boot = NoBoot

PostAuthCall ==
    /\ ~postauth.done
    /\ LET r == mod_post_auth(store, next_id, postauth.req)
       IN /\ postauth' = [postauth EXCEPT !.done = TRUE, !.rcode = r.rcode, !.sid = r.sid,
                                          !.reply_eap = r.reply_eap,
                                          !.destroyed = r.destroyed,
                                          !.msg_auth = postauth.req.reply_msg_auth
                                                          \o r.msg_auth]
          /\ store' = r.store
          /\ next_id' = r.next_id
    /\ UNCHANGED <<inst, ev, terminal, trailer, nakcall, workers, registry, authz, rewrap,
                   peapcall, boot>>

NextPostAuth == PostAuthCall

SpecPostAuth == InitPostAuth /\ [][NextPostAuth]_vars

(***************************************************************************)
(* Authorize on its own: every control list, probe status and name         *)
(***************************************************************************)
InitAuthorize ==
    /\ authz \in AuthzInputs
    /\ inst \in {c \in Configs : c.methods = MethodTypes /\ c.default_method = PW_EAP_PEAP}
    /\ store = <<>>
    /\ next_id = 1
    /\ ev = NoEvent
    /\ terminal = {}
    /\ trailer = {}
    /\ nakcall = NoNakCall
    /\ workers = NoWorkers
    /\ registry = NoRegistry
    /\ rewrap = NoRewrap
    /\ postauth = NoPostAuth
    /\ peapcall = NoPeapCall
    /\ boot = NoBoot

Authorize ==
    /\ ~authz.done
    /\ LET r == mod_authorize(authz)
       IN authz' = [authz EXCEPT !.done = TRUE, !.rcode = r.rcode,
                                 !.control_after = r.control]
    /\ UNCHANGED <<inst, store, next_id, ev, terminal, trailer, nakcall, workers, registry,
                   rewrap, postauth, peapcall, boot>>

NextAuthorize == Authorize

SpecAuthorize == InitAuthorize /\ [][NextAuthorize]_vars


(***************************************************************************)
(* Properties of NAK negotiation (under SpecNak)                           *)
(***************************************************************************)
\* C1: eap_process_nak returns either invalid (0) or a type t with
\* MD5 <= t < MAX whose registry slot is non-empty and which differs from
\* the currently running type.
C1_NakResultSound ==
    nakcall.done =>
        \/ nakcall.method = PW_EAP_INVALID
        \/ /\ PW_EAP_MD5 <= nakcall.method
           /\ nakcall.method < PW_EAP_MAX_TYPES
           /\ nakcall.method \in nakcall.methods
           /\ nakcall.method # nakcall.type

\* A type was chosen although the peer had first proposed the running type.
C1_Witness ==
    /\ nakcall.done
    /\ nakcall.method # PW_EAP_INVALID
    /\ \E i \in 1 .. Len(nakcall.data) : i < nakcall.examined /\ nakcall.data[i] = nakcall.type

\* The reference scan of C2: the first entry that ends the scan decides.
RefEnds(n, e) == (e = 0) \/ (e < PW_EAP_MD5)
RefSkipped(n, e) ==
    \/ e >= PW_EAP_MAX_TYPES
    \/ e \notin n.methods
    \/ e = n.type
    \/ (n.vp.present /\ n.vp.vp_integer # e)
RefStops(n) == {i \in 1 .. Len(n.data) : RefEnds(n, n.data[i]) \/ ~RefSkipped(n, n.data[i])}
RefFirst(n) == CHOOSE i \in RefStops(n) : \A j \in RefStops(n) : i <= j
RefScan(n) ==
    IF Len(n.data) = 0 THEN [method |-> PW_EAP_INVALID, examined |-> 0]
    ELSE IF RefStops(n) = {} THEN [method |-> PW_EAP_INVALID, examined |-> Len(n.data)]
    ELSE IF RefEnds(n, n.data[RefFirst(n)])
    THEN [method |-> PW_EAP_INVALID, examined |-> RefFirst(n)]
    ELSE [method |-> n.data[RefFirst(n)], examined |-> RefFirst(n)]

\* C2: the result of NAK negotiation equals the reference scan in list
\* order: invalid without data; invalid at the first entry that is 0 or below
\* MD5; entries >= MAX, unregistered, equal to the running type or different
\* from the pin are skipped; the first remaining entry is returned and no
\* later entry is read; invalid when the list is exhausted.
C2_NakReferenceScan ==
    nakcall.done =>
        /\ nakcall.method = RefScan(nakcall).method
        /\ nakcall.examined = RefScan(nakcall).examined

\* A reserved entry ended the scan although an acceptable one followed it.
C2_Witness ==
    /\ nakcall.done
    /\ nakcall.method = PW_EAP_INVALID
    /\ nakcall.examined > 1
    /\ \E j \in 1 .. Len(nakcall.data) :
          /\ j > nakcall.examined
          /\ ~RefEnds(nakcall, nakcall.data[j])
          /\ ~RefSkipped(nakcall, nakcall.data[j])

\* C3: with a per-user pin control:EAP-Type, NAK negotiation returns the
\* pinned type or invalid, never another type.
C3_NakHonoursPin ==
    (nakcall.done /\ nakcall.vp.present) =>
        nakcall.method \in {PW_EAP_INVALID, nakcall.vp.vp_integer}

\* The pinned type was chosen after a registered, different type was passed over.
C3_Witness ==
    /\ nakcall.done
    /\ nakcall.vp.present
    /\ nakcall.method = nakcall.vp.vp_integer
    /\ \E i \in 1 .. Len(nakcall.data) :
          /\ i < nakcall.examined
          /\ nakcall.data[i] \in nakcall.methods
          /\ nakcall.data[i] # nakcall.type

(***************************************************************************)
(* Properties of method selection and of the hooks (under Spec)            *)
(***************************************************************************)
Selected == ev.hook = "authenticate" /\ ev.sel.rcode # "none"

\* An Identity response that reaches the switch on the response type.
IdentityCase ==
    Selected /\ ev.pkt.num = PW_EAP_IDENTITY /\ ev.sel.branch # "nested"

\* C4: on an Identity response the method is control:EAP-Type when present,
\* else the default; a method below MD5, at or above MAX or unregistered
\* gives invalid and no handler runs; otherwise session.type is the chosen
\* type and the handler invoked is that method's session_init.
C4_IdentitySelection ==
    IdentityCase =>
        LET chosen == IF ev.vp.present THEN ev.vp.vp_integer ELSE inst.default_method
            unsupported == \/ chosen < PW_EAP_MD5
                           \/ chosen >= PW_EAP_MAX_TYPES
                           \/ chosen \notin inst.methods
        IN IF unsupported
           THEN ev.sel.rcode = "invalid" /\ ~ev.sel.called
           ELSE /\ ev.sel.called
                /\ ev.sel.handler = SessionInit(chosen)
                /\ ev.sel.submodule_inst = chosen
                /\ ev.sel.after.type = chosen

\* An Identity response started the pinned method, which is not the default.
C4_Witness ==
    /\ IdentityCase
    /\ ev.vp.present
    /\ ev.vp.vp_integer # inst.default_method
    /\ ev.sel.called
    /\ ev.sel.rcode = "ok"

C6_InvalidSelectionFails ==
    (Selected /\ ev.sel.rcode = "invalid") =>
        /\ ev.reply_eap = PW_EAP_FAILURE
        /\ ev.sid # 0
        /\ ev.sid \notin DOMAIN store
        /\ ev.rcode = "invalid"

\* A thawed session whose method handler returned 0.
C6_Witness ==
    /\ Selected
    /\ ev.sel.rcode = "invalid"
    /\ ev.sel.called
    /\ ~ev.created
    /\ ev.sel.handler.fn = "process"

\* C7: after a successful selection the session is retained, with
\* prev_round the round just run and this_round nil, exactly when the packet
\* to the peer is an EAP-Request of type >= MD5 or the peer's Response/LEAP is
\* answered by a Success of type 0; otherwise it is destroyed.
C7_RetainExactlyWhen ==
    (Selected /\ ev.sel.rcode = "ok") =>
        LET keep == \/ /\ ev.round.request.code = PW_EAP_REQUEST
                       /\ ev.round.request.num >= PW_EAP_MD5
                    \/ /\ ev.round.response.code = PW_EAP_RESPONSE
                       /\ ev.round.response.num = PW_EAP_LEAP
                       /\ ev.round.request.code = PW_EAP_SUCCESS
                       /\ ev.round.request.num = 0
        IN IF keep
           THEN /\ ev.sid \in DOMAIN store
                /\ store[ev.sid].prev_round = ev.round
                /\ store[ev.sid].this_round = NoRound
           ELSE ev.sid \notin DOMAIN store

\* LEAP's Success left the session in the store.
C7_Witness ==
    /\ Selected
    /\ ev.sel.rcode = "ok"
    /\ ev.round.request = Pkt(PW_EAP_SUCCESS, 0)
    /\ ev.sid \in DOMAIN store

\* C8: once an EAP-Success or EAP-Failure has gone to the peer on a session
\* (LEAP's Success before the AP challenge aside), the session is not in the
\* store, and no later hook invocation obtains it.
C8_FinalIsFinal ==
    /\ terminal \cap DOMAIN store = {}
    /\ ~ev.finished

\* A later Authenticate carried the correlator of a finished session.
C8_Witness ==
    /\ ev.hook = "authenticate"
    /\ ev.state \in terminal
    /\ ev.sid # ev.state
    /\ ev.pkt.num = PW_EAP_LEAP

\* C9 as claimed: the round after LEAP's retained Success always ends with
\* the session destroyed, whatever packet the method produces.
C9_TrailerAlwaysDestroys ==
    (ev.hook = "authenticate" /\ ev.trailing) => ev.sid \notin DOMAIN store

\* C9 amended: the round after LEAP's retained Success ends with the session
\* destroyed unless the packet to the peer in that round is again an
\* EAP-Request of type >= MD5 or a Success of type 0 answering Response/LEAP.
C9_TrailerDestroysUnlessRequest ==
    (/\ ev.hook = "authenticate"
     /\ ev.trailing
     /\ ~(ev.round.request.code = PW_EAP_REQUEST /\ ev.round.request.num >= PW_EAP_MD5)
     /\ ~(ev.round.response = Pkt(PW_EAP_RESPONSE, PW_EAP_LEAP)
          /\ ev.round.request = Pkt(PW_EAP_SUCCESS, 0)))
        => (ev.sid \notin DOMAIN store /\ ev.sid \notin trailer)

\* LEAP answered the AP challenge with an EAP-Response and the session went.
C9_Witness ==
    /\ ev.hook = "authenticate"
    /\ ev.trailing
    /\ ev.pkt = Pkt(PW_EAP_REQUEST, PW_EAP_LEAP)
    /\ ev.sel.called
    /\ ev.round.request.code = PW_EAP_RESPONSE
    /\ ev.sid \notin DOMAIN store

\* C10: whenever method selection assigns a different value to
\* session.type, session.opaque is nil at that assignment.
C10_OpaqueFreedBeforeTypeChange ==
    \A i \in DOMAIN ev.sel.writes :
        ev.sel.writes[i].from # ev.sel.writes[i].to => ev.sel.writes[i].opaque = NoOpaque

(***************************************************************************)
(* Proxied inner requests                                                  *)
(***************************************************************************)
\* PEAP's round handler returned 1 because the inner request was proxied.
InnerProxied ==
    /\ ev.hook = "authenticate"
    /\ ev.sel.rcode = "ok"
    /\ ev.sel.inner = "RLM_MODULE_UPDATED"

\* C11: when a tunnelled method's round returns continue because the inner
\* result was Updated, Authenticate keeps the session (it is in the store
\* when the hook returns), so that Post-Proxy finds it.
C11_ProxiedSessionRetained ==
    InnerProxied => (ev.retained /\ ev.sid \in DOMAIN store)

(***************************************************************************)
(* Parallel workers (under SpecWorkers)                                    *)
(***************************************************************************)
Holds(w) == workers[w].pc = "held"

\* C12: under any interleaving of hooks on parallel workers, no session is
\* held between thaw and freeze or destroy by two workers at the same time.
C12_OneWorkerPerSession ==
    \A w1, w2 \in Workers :
        (w1 # w2 /\ Holds(w1) /\ Holds(w2)) =>
            workers[w1].session.id # workers[w2].session.id

\* A retransmission with the correlator of a session another worker holds
\* reached Authenticate and was given no session.
C12_Witness ==
    \E w1, w2 \in Workers :
        /\ Holds(w1)
        /\ workers[w2].pc = "lost"
        /\ workers[w2].hook = "authenticate"
        /\ workers[w2].req.state = workers[w1].session.id
        /\ workers[w2].req = workers[w1].req

(***************************************************************************)
(* Method handles (under SpecRegistry)                                     *)
(***************************************************************************)
Unloaded(m) == ~registry.module[m].loaded

\* Memory parented to a handle of m is gone before m's code is, and no
\* handle drops its reference twice.
HandleStateFreedFirst ==
    \A i \in Instances, m \in MethodTypes :
        /\ Unloaded(m) => ~registry.method[i][m].children
        /\ registry.method[i][m].decs <= 1

\* No live instance has m in its methods[] once m's code is unloaded.
InstancesPinModule ==
    \A i \in registry.alive, m \in MethodTypes :
        Unloaded(m) => registry.method[i][m].state # "live"

\* No session runs m once m's code is unloaded.
SessionsPinModule ==
    \A s \in registry.sessions : ~Unloaded(s[2])

\* C13: a method's code module is never unloaded while something that uses
\* it is alive: state parented to a handle goes before the handle's
\* reference, each handle drops one reference, and the module stays loaded
\* until its last user, EAP session or rlm_eap instance, is gone.
C13_NoUnloadWhileInUse ==
    HandleStateFreedFirst /\ InstancesPinModule /\ SessionsPinModule

(***************************************************************************)
(* The User-Name rule (under Spec)                                         *)
(***************************************************************************)
\* Authenticate or Post-Proxy has returned and the reply is an Access-Accept.
Accepting ==
    ev.hook \in {"authenticate", "post_proxy"} /\ ev.reply_code = "Access-Accept"

\* The reply carries a User-Name when the hook returns.
ReplyHasUserName == ev.reply_user_name \/ ev.added_user_name

PinnedElsewhere ==
    \E k \in 1 .. Len(authz.control) : authz.control[k] # authz.name

AuthTypeAdded == authz.control_after # authz.control

\* C15 as claimed: Authorize adds Auth-Type only when no Auth-Type pins the
\* request to another module or to REJECT; with such a marker nothing is
\* added and the list is as it was.
C15_AuthTypeOnlyIfUnpinned ==
    (authz.done /\ PinnedElsewhere) => ~AuthTypeAdded

\* C15 amended: with an Auth-Type of REJECT found in the control list
\* nothing is added and the list is as it was; when Authorize gets past the
\* eap-start probe and finds no Auth-Type or one that is not REJECT (another
\* module's included), it adds Auth-Type := its own name and leaves the
\* pairs already there unchanged.
C15_AuthTypeUnlessReject ==
    authz.done =>
        LET probed == ~authz.proxy /\ authz.status \in {"ok", "updated"}
            reject == Len(authz.control) > 0 /\ authz.control[1] = "Reject"
        IN IF probed /\ ~reject /\ ~authz.make_fails
           THEN authz.control_after = Append(authz.control, authz.name)
           ELSE authz.control_after = authz.control

\* Auth-Type := this module was added next to another module's Auth-Type.
C15_Witness ==
    /\ authz.done
    /\ authz.control = <<"PAP">>
    /\ authz.control_after = <<"PAP", authz.name>>
    /\ authz.rcode = "updated"

(***************************************************************************)
(* Post-Proxy with the proxied-session marker (under Spec)                 *)
(***************************************************************************)
\* C16: in Post-Proxy on a request with the proxied-session marker, when the
\* tunnel callback returns 0 an EAP-Failure is composed into the reply, the
\* session is destroyed (it is not in the store afterwards), and the hook
\* returns reject.
C16_CallbackFailureRejects ==
    (ev.hook = "post_proxy" /\ ev.callback = "failed") =>
        /\ ev.reply_eap = PW_EAP_FAILURE
        /\ ev.round.request = Pkt(PW_EAP_FAILURE, 0)
        /\ ev.destroyed
        /\ ~ev.retained
        /\ ev.sid \notin DOMAIN store
        /\ ev.rcode = "reject"

\* The callback failed on a PEAP session thawed for the proxy reply.
C16_Witness ==
    /\ ev.hook = "post_proxy"
    /\ ev.callback = "failed"
    /\ ev.sid = ev.state
    /\ ev.sid # 0
    /\ ev.rcode = "reject"

(***************************************************************************)
(* Post-Proxy without the marker (under SpecRewrap)                        *)
(***************************************************************************)
\* The pair the recoding is about, taking "attribute" as any pair of the
\* proxy reply: the first one whose value begins leap:session-key=.
FirstWithPrefix(vps) ==
    LET with == {i \in 1 .. Len(vps) : vps[i].value.prefix = SessionKeyPrefix}
    IN IF with = {} THEN 0 ELSE CHOOSE i \in with : \A j \in with : i <= j

\* The same, taking "attribute" as a Cisco-AVPair.
FirstCiscoWithPrefix(vps) ==
    LET with == {i \in 1 .. Len(vps) : /\ vps[i].attr = "Cisco-AVPair"
                                       /\ vps[i].value.prefix = SessionKeyPrefix}
    IN IF with = {} THEN 0 ELSE CHOOSE i \in with : \A j \in with : i <= j

\* What the claim gives for the pair at position i (0: no such pair).
RewrapExpected(p, i) ==
    IF ~p.present \/ i = 0 THEN [rcode |-> "noop", vps |-> p.vps]
    ELSE IF p.vps[i].value.length # 51 THEN [rcode |-> "noop", vps |-> p.vps]
    ELSE LET v == p.vps[i].value
             plain == tunnel_password_decrypt(v.c, p.home_secret, p.proxy_vector, v.salt)
         IN IF plain.len > 31 \/ plain.len # 16 \/ p.encode_fails
            THEN [rcode |-> "fail", vps |-> p.vps]
            ELSE [rcode |-> "updated",
                  vps |-> [p.vps EXCEPT ![i].value =
                             [v EXCEPT !.salt = p.new_salt,
                                       !.c = tunnel_password_encrypt(plain, p.client_secret,
                                                 p.request_vector, p.new_salt)]]]

RewrapIs(e) == rewrap.rcode = e.rcode /\ rewrap.vps_after = e.vps

\* C17: Post-Proxy without the marker returns noop when there is no proxy
\* reply, no attribute beginning leap:session-key=, or the matching attribute
\* is not 51 bytes long; fail when the decode fails, the plaintext is not 16
\* bytes or the re-encode fails; otherwise the attribute's value becomes the
\* same prefix followed by the key decoded under the home-server secret and
\* proxy authenticator and re-encoded under the client secret and the
\* request's authenticator.
C17_RewrapAsStated ==
    rewrap.done => RewrapIs(RewrapExpected(rewrap.in, FirstCiscoWithPrefix(rewrap.in.vps)))

\* The same statement read with "attribute" as any pair of the reply.
RewrapOfAnyPair ==
    rewrap.done => RewrapIs(RewrapExpected(rewrap.in, FirstWithPrefix(rewrap.in.vps)))

\* What does hold: the same for the pair the scan stops at.
RewrapOfScannedPair ==
    rewrap.done => RewrapIs(RewrapExpected(rewrap.in, FindSessionKey(rewrap.in.vps)))

\* C18: whenever the recoding returns fail, every pair of the proxy reply
\* still has its original value, and no session has been taken from the
\* store, changed or destroyed.
C18_FailLeavesAllUntouched ==
    (rewrap.done /\ rewrap.rcode = "fail") =>
        /\ rewrap.vps_after = rewrap.in.vps
        /\ rewrap.sid = 0
        /\ store = IdentityRound.store

\* A 51-byte session key in a Cisco-AVPair, next to the stored session,
\* whose recoding failed after the decode had rewritten the copy.
C18_Witness ==
    /\ rewrap.done
    /\ rewrap.rcode = "fail"
    /\ DOMAIN store = {1}
    /\ LET i == FindSessionKey(rewrap.in.vps)
       IN /\ i # 0
          /\ rewrap.in.vps[i].attr = "Cisco-AVPair"
          /\ fr_radius_decode_tunnel_password(rewrap.in.vps[i].value, rewrap.in.home_secret,
                                              rewrap.in.proxy_vector).buf
                # rewrap.in.vps[i].value

(***************************************************************************)
(* Post-Auth (under SpecPostAuth)                                          *)
(***************************************************************************)
\* The code asked for the request's session and got one.
SessionObtained(q, st) ==
    q.decode_ok /\ eap_session_continue(st, Len(st) + 1, q).found

\* The code asked for the request's session and got none.
NoSessionObtained(q, st) ==
    q.decode_ok /\ ~eap_session_continue(st, Len(st) + 1, q).found

\* C19: when Post-Auth runs with Post-Auth-Type = Reject on a request that
\* has an EAP-Message, whose reply has none, and whose session is found,
\* then on return the reply holds an EAP-Failure and exactly one
\* Message-Authenticator (the one it had, else a zero-filled placeholder),
\* and the session has been destroyed.
C19_RejectSynthesisesFailure ==
    (/\ postauth.done
     /\ postauth.req.reject
     /\ postauth.req.has_eap
     /\ ~postauth.req.reply_has_eap
     /\ SessionObtained(postauth.req, postauth.store)) =>
        /\ postauth.reply_eap = PW_EAP_FAILURE
        /\ Len(postauth.msg_auth) = 1
        /\ postauth.msg_auth =
              (IF postauth.req.reply_msg_auth = <<>> THEN <<"zero">>
               ELSE postauth.req.reply_msg_auth)
        /\ postauth.destroyed
        /\ postauth.sid \notin DOMAIN store

\* The stored session was found, failed and destroyed, and the reply, which
\* had a Message-Authenticator, still has just that one.
C19_Witness ==
    /\ postauth.done
    /\ postauth.req.reject
    /\ postauth.req.state \in DOMAIN postauth.store
    /\ postauth.sid = postauth.req.state
    /\ postauth.reply_eap = PW_EAP_FAILURE
    /\ postauth.req.reply_msg_auth = <<"set">>
    /\ postauth.msg_auth = <<"set">>
    /\ store = <<>>

\* C20: Post-Auth returns noop and leaves the reply's attributes and every
\* stored session unchanged whenever Post-Auth-Type is absent or not Reject,
\* the request has no EAP-Message, the reply already has an EAP-Message, or
\* no session can be obtained for the request.
C20_NoopLeavesAllUnchanged ==
    (/\ postauth.done
     /\ \/ ~postauth.req.reject
        \/ ~postauth.req.has_eap
        \/ postauth.req.reply_has_eap
        \/ NoSessionObtained(postauth.req, postauth.store)) =>
        /\ postauth.rcode = "noop"
        /\ postauth.reply_eap = 0
        /\ postauth.msg_auth = postauth.req.reply_msg_auth
        /\ store = postauth.store
        /\ postauth.sid = 0

\* A rejected request whose reply has an EAP-Message already, and whose
\* session is in the store: the hook returned noop beside it.
C20_Witness ==
    /\ postauth.done
    /\ postauth.req.reject
    /\ postauth.req.has_eap
    /\ postauth.req.reply_has_eap
    /\ postauth.req.decode_ok
    /\ postauth.req.state \in DOMAIN store
    /\ postauth.rcode = "noop"

(***************************************************************************)
(* The pairs the recoding looks at (under SpecRewrap)                      *)
(***************************************************************************)
\* C29: the recoding matches and rewrites only Cisco-AVPair pairs: a pair of
\* any other attribute is never the one the scan stops at and never changes,
\* whatever its position in the reply or its value.
C29_OnlyCiscoAVPairTouched ==
    rewrap.done =>
        /\ \A i \in 1 .. Len(rewrap.in.vps) :
              rewrap.in.vps[i].attr # "Cisco-AVPair" =>
                  /\ rewrap.vps_after[i] = rewrap.in.vps[i]
                  /\ ~(rewrap.in.present /\ FindSessionKey(rewrap.in.vps) = i)

(***************************************************************************)
(* Authenticate's early returns (under Spec)                               *)
(***************************************************************************)
\* The hook left the store and the correlator counter as they were.
StoreUntouched == store' = store /\ next_id' = next_id

\* What the hook reports when it obtained no session and called no handler.
NoSessionNoHandler(e) ==
    /\ e.sid = 0
    /\ ~e.created
    /\ ~e.destroyed
    /\ ~e.retained
    /\ ~e.sel.called

\* C23: Authenticate returns invalid when the request has no EAP-Message and
\* fail when the EAP packet cannot be decoded; in both cases no session has
\* been thawed, created or destroyed and no method handler invoked.
C23_EarlyReturnsTouchNothing ==
    [][(ev'.hook = "authenticate" /\ ~(ev'.has_eap /\ ev'.decode_ok)) =>
          /\ ev'.rcode = (IF ~ev'.has_eap THEN "invalid" ELSE "fail")
          /\ NoSessionNoHandler(ev')
          /\ StoreUntouched]_vars

\* A malformed EAP-Message came in under the State of a stored session: the
\* hook returned fail and the session is still stored.
C23_Witness ==
    /\ ev.hook = "authenticate"
    /\ ev.has_eap
    /\ ~ev.decode_ok
    /\ ev.rcode = "fail"
    /\ ev.state \in DOMAIN store

\* C22: every Authenticate call on a request that has an EAP-Message returns
\* with an EAP-Request, EAP-Success or EAP-Failure staged in the reply,
\* whatever the outcome.
C22_ReplyAlwaysStaged ==
    (ev.hook = "authenticate" /\ ev.has_eap) =>
        ev.reply_eap \in {PW_EAP_REQUEST, PW_EAP_SUCCESS, PW_EAP_FAILURE}

\* The part that holds: a call that ends in invalid with a session in hand
\* has staged an EAP-Failure.
InvalidWithSessionStagesFailure ==
    (ev.hook = "authenticate" /\ ev.rcode = "invalid" /\ ev.sid # 0) =>
        ev.reply_eap = PW_EAP_FAILURE

(***************************************************************************)
(* What becomes of the session a hook held (under Spec)                    *)
(***************************************************************************)
\* C27: on every return of Authenticate, Post-Proxy and Post-Auth after a
\* session was obtained, the session has been destroyed (it is not in the
\* store) or frozen (it is in the store): none stays bound to the request.
C27_SessionDestroyedOrFrozen ==
    (ev.hook \in {"authenticate", "post_proxy", "post_auth"} /\ ev.sid # 0) =>
        \/ ev.destroyed /\ ~ev.retained /\ ev.sid \notin DOMAIN store
        \/ ev.retained /\ ~ev.destroyed /\ ev.sid \in DOMAIN store

\* Post-Proxy thawed a session, the callback left a Request, and the session
\* is back in the store.
C27_Witness ==
    /\ ev.hook = "post_proxy"
    /\ ev.callback = "ok"
    /\ ev.sid # 0
    /\ ev.retained
    /\ ev.sid \in DOMAIN store

(***************************************************************************)
(* One method at a time (under Spec)                                       *)
(***************************************************************************)
\* C26: at every call of a method handler by method selection, the handler
\* in session.process, the submodule instance passed to it and the state in
\* session.opaque (when there is one) belong to the method numbered
\* session.type, that method is registered, and session.process is set.
C26_OneMethodAtACall ==
    (ev.hook = "authenticate" /\ ev.sel.called) =>
        /\ ev.sel.handler # NoProcess
        /\ ev.sel.submodule_inst \in inst.methods
        /\ ev.sel.handler.method = ev.sel.submodule_inst
        /\ ev.sel.writes[1].to = ev.sel.submodule_inst
        /\ ev.sel.writes[1].opaque \in {NoOpaque, ev.sel.submodule_inst}

\* The part that holds: the method called for is registered and a handler
\* is set.
CalledMethodRegistered ==
    (ev.hook = "authenticate" /\ ev.sel.called) =>
        /\ ev.sel.handler # NoProcess
        /\ ev.sel.submodule_inst \in inst.methods

(***************************************************************************)
(* PEAP session initialisation (under Spec)                                *)
(***************************************************************************)
PeapInitCalled ==
    ev.hook = "authenticate" /\ ev.sel.called /\ ev.sel.handler = SessionInit(PW_EAP_PEAP)

\* C28: when PEAP session initialisation fails it returns 0 and
\* session.opaque does not reference freed TLS state; when it succeeds,
\* session.opaque holds the new TLS session and session.process is the PEAP
\* round handler.
C28_PeapInitLeavesNoFreedState ==
    PeapInitCalled =>
        IF ev.sel.rcode = "invalid"
        THEN ev.sel.after.opaque # FreedOpaque
        ELSE /\ ev.sel.after.opaque = PW_EAP_PEAP
             /\ ev.sel.after.process = Process(PW_EAP_PEAP)

\* The part that holds: the success case, and the failed allocation.
PeapInitSuccessInstalls ==
    PeapInitCalled =>
        IF ev.sel.rcode = "invalid"
        THEN ev.sel.after.opaque \in {NoOpaque, FreedOpaque}
        ELSE /\ ev.sel.after.opaque = PW_EAP_PEAP
             /\ ev.sel.after.process = Process(PW_EAP_PEAP)


(***************************************************************************)
(* PEAP's round handler                                                    *)
(***************************************************************************)
PeapDone == peapcall.done /\ peapcall.handler = Process(PW_EAP_PEAP)

PeapStatusUnchanged == peapcall.peap_status = peapcall.in.peap_status

\* The dispatcher's answer to a handler that returned 0.
DispatcherFails ==
    /\ peapcall.rcode = "invalid"
    /\ peapcall.reply_eap = PW_EAP_FAILURE
    /\ peapcall.destroyed
    /\ store = <<>>

\* C24: the TLS outcome decides the round.  Handled: return 1, tunnel status
\* as it was, no inner processing.  Established: tunnel status
\* TunnelEstablished and on to the inner processing.  RecordRecvComplete: on
\* to the inner processing, tunnel status as it was.  Invalid, Fail: return 0
\* without inner processing, and the dispatcher answers with an EAP-Failure
\* and destroys the session.
C24_TlsOutcomeMapping ==
    PeapDone =>
        LET status == peapcall.in.status
        IN /\ status = "EAP_TLS_HANDLED" =>
                 /\ peapcall.ret = 1
                 /\ PeapStatusUnchanged
                 /\ ~peapcall.inner_called
           /\ status = "EAP_TLS_ESTABLISHED" =>
                 /\ peapcall.peap_status = "PEAP_STATUS_TUNNEL_ESTABLISHED"
                 /\ peapcall.inner_called
           /\ status = "EAP_TLS_RECORD_RECV_COMPLETE" =>
                 /\ PeapStatusUnchanged
                 /\ peapcall.inner_called
           /\ status \in {"EAP_TLS_INVALID", "EAP_TLS_FAIL"} =>
                 /\ peapcall.ret = 0
                 /\ ~peapcall.inner_called
                 /\ PeapStatusUnchanged
                 /\ DispatcherFails

\* A handshake still in progress has answered a session whose tunnel was in
\* phase 2.
C24_Witness ==
    /\ PeapDone
    /\ peapcall.in.status = "EAP_TLS_HANDLED"
    /\ peapcall.in.peap_status = "PEAP_STATUS_PHASE2"
    /\ peapcall.in.inner = "RLM_MODULE_OK"
    /\ peapcall.ret = 1
    /\ peapcall.peap_status = "PEAP_STATUS_PHASE2"

\* A failed handshake has ended a session.
FailedHandshakeEndsSession ==
    /\ PeapDone
    /\ peapcall.in.status = "EAP_TLS_FAIL"
    /\ DispatcherFails

\* C25: the inner result decides the round once the tunnel is up.  Reject:
\* EAP-Failure, 0.  Handled: EAP-Request, 1.  Ok: EAP-Success with keys under
\* the label "client EAP encryption", 1, or 0 when the Success cannot be
\* built.  Updated: 1 and no packet.  Anything else: EAP-Failure, 0.
C25_InnerResultMapping ==
    (PeapDone /\ peapcall.inner_called) =>
        LET inner == peapcall.in.inner
        IN /\ inner = "RLM_MODULE_REJECT" =>
                 (peapcall.pkt.code = PW_EAP_FAILURE /\ peapcall.ret = 0)
           /\ inner = "RLM_MODULE_HANDLED" =>
                 (peapcall.pkt.code = PW_EAP_REQUEST /\ peapcall.ret = 1)
           /\ (inner = "RLM_MODULE_OK" /\ peapcall.in.success_ok) =>
                 /\ peapcall.pkt.code = PW_EAP_SUCCESS
                 /\ peapcall.label = "client EAP encryption"
                 /\ peapcall.ret = 1
           /\ (inner = "RLM_MODULE_OK" /\ ~peapcall.in.success_ok) => peapcall.ret = 0
           /\ inner = "RLM_MODULE_UPDATED" => (peapcall.pkt = NoPkt /\ peapcall.ret = 1)
           /\ inner \notin {"RLM_MODULE_REJECT", "RLM_MODULE_HANDLED", "RLM_MODULE_OK",
                            "RLM_MODULE_UPDATED"} =>
                 (peapcall.pkt.code = PW_EAP_FAILURE /\ peapcall.ret = 0)

\* The inner request was proxied in an established tunnel: the round
\* returned 1 with no packet.
C25_Witness ==
    /\ PeapDone
    /\ peapcall.inner_called
    /\ peapcall.in.inner = "RLM_MODULE_UPDATED"
    /\ peapcall.ret = 1
    /\ peapcall.pkt = NoPkt


(***************************************************************************)
(* mod_bootstrap                                                           *)
(***************************************************************************)
SlotRange == PW_EAP_MD5 .. (PW_EAP_MAX_TYPES - 1)

BootOk == boot.done /\ boot.ret = 0

\* A subsection whose name is in no dictionary, or names a type without a
\* slot.
BadSection(name) ==
    /\ name \notin {NoName, TLS_CONFIG_SECTION}
    /\ \/ eap_name2type(name) = PW_EAP_INVALID
       \/ eap_name2type(name) \notin SlotRange

\* C21: bootstrap succeeds only if at least one method was registered and
\* default_eap_type resolves to a registered method; after success the saved
\* default method is within [MD5, MAX) with a non-empty slot, every
\* non-empty slot is within [MD5, MAX), and no slot was filled from a
\* subsection named tls; a subsection with an unknown or out-of-range name
\* makes bootstrap fail.
C21_BootstrapContract ==
    /\ BootOk =>
          /\ boot.num_methods >= 1
          /\ DOMAIN boot.methods # {}
          /\ eap_name2type(boot.cfg.default_method_name) \in DOMAIN boot.methods
          /\ boot.default_method \in SlotRange
          /\ boot.default_method \in DOMAIN boot.methods
          /\ DOMAIN boot.methods \subseteq SlotRange
          /\ \A m \in DOMAIN boot.methods : boot.methods[m] # "tls"
    /\ (boot.done /\ \E k \in DOMAIN boot.cfg.sections : BadSection(boot.cfg.sections[k]))
          => boot.ret = -1

\* The same, for a default_eap_type whose type number is below MAX.
BootstrapContractBelowMax ==
    eap_name2type(boot.cfg.default_method_name) < PW_EAP_MAX_TYPES => C21_BootstrapContract

\* Bootstrap has succeeded on md5 with a section tls before it.
BootstrapSucceeds ==
    /\ BootOk
    /\ boot.cfg.sections = <<"tls", "md5">>
    /\ boot.default_method = PW_EAP_MD5
    /\ DOMAIN boot.methods = {PW_EAP_MD5}

====
